---- MODULE Spec2Model ----
(***************************************************************************)
(* A model of the asynchronous news scraper: one run of                    *)
(* scrape_all_sources_async (app/scrapers/async_scraper.py) over the       *)
(* configured sources, with the per-URL extraction task in its two         *)
(* implementations (extraer_datos_noticia_async and NewsExtractor.extraer). *)
(***************************************************************************)
EXTENDS Integers, Sequences, FiniteSets, TLC

(***************************************************************************)
(* Bounds of the model.                                                    *)
(***************************************************************************)
MaxSources == 2
MaxCap == 2

(***************************************************************************)
(* Program constants (config/settings.py).                                 *)
(***************************************************************************)
MinBodyLength == 100
MinArticlesFound == 3
MinParagraphs == 2
MinParagraphLength == 20

\* Optional values are sequences of length at most one: None is the empty one.
None == <<>>
Some(x) == <<x>>

(***************************************************************************)
(* Text.  A text is a sequence of characters; "m" stands for a combining   *)
(* mark (Unicode category Mn), every other character is a base letter.     *)
(***************************************************************************)
IsMark(c) == c = "m"

\* normalizar_texto: NFC, then NFD with every character of category Mn dropped.
normalizar_texto(texto) ==
    IF texto = <<>> THEN texto
    ELSE SelectSeq(texto, LAMBDA c : ~IsMark(c))

RECURSIVE SumSeq(_)
SumSeq(s) == IF s = <<>> THEN 0 ELSE Head(s) + SumSeq(Tail(s))

(***************************************************************************)
(* Hosts and URLs.  A host (netloc) is a sequence of tokens, "www." being  *)
(* the prefix token; a URL is a host and a path; an href is either         *)
(* relative (host = None) or absolute, and may hold a template marker.     *)
(***************************************************************************)
Names == <<"a", "b", "c", "d">>

\* config/sources.py: the enabled sources, some with and some without "www.".
SourceHost(s) == IF s % 2 = 1 THEN <<"www.", Names[s]>> ELSE <<Names[s]>>
SourceName(s) == Names[s]

OtherHost == <<"x">>

\* the same site written without / with the leading "www."
WwwVariant(h) == IF h # <<>> /\ Head(h) = "www." THEN Tail(h) ELSE <<"www.">> \o h

\* urljoin(source_url, href) followed by urlparse(...).netloc
urljoin(srcHost, href) ==
    [host |-> IF href.host = None THEN srcHost ELSE href.host,
     path |-> href.path,
     tmpl |-> href.tmpl]

(***************************************************************************)
(* Front pages.  An element is an id and the first <a href> inside it (or  *)
(* None).  A front-page document is what the three discovery stages of the *)
(* scraper see of it: the elements found by each configured selector, the  *)
(* <article> elements, and the containers of the links whose href matches  *)
(* a URL pattern.                                                          *)
(***************************************************************************)
Rel(p) == Some([host |-> None, path |-> p, tmpl |-> FALSE])
Abs(h, p) == Some([host |-> h, path |-> p, tmpl |-> FALSE])
Tmpl(p) == Some([host |-> None, path |-> p, tmpl |-> TRUE])
El(i, h) == [id |-> i, href |-> h]

FrontPages(s) ==
    LET h == SourceHost(s) IN
    { \* a selector finds four teasers: a duplicate link and an off-domain one
      [sel |-> << <<El(1, Rel("/n1")), El(2, Rel("/n1")),
                    El(3, Abs(OtherHost, "/n2")), El(4, Rel("/n2"))>> >>,
       art |-> <<>>, lnk |-> <<>>],
      \* three <article> teasers: www-variant host, template marker, in-domain
      [sel |-> << <<El(1, Abs(WwwVariant(h), "/n1")), El(2, Tmpl("/n2")),
                    El(3, Abs(h, "/n3"))>> >>,
       art |-> <<El(1, Abs(WwwVariant(h), "/n1")), El(2, Tmpl("/n2")),
                 El(3, Abs(h, "/n3"))>>,
       lnk |-> <<>>],
      \* too few <article>, four link containers (one seen twice)
      [sel |-> << <<>> >>,
       art |-> <<El(1, Rel("/n1")), El(2, Rel("/n2"))>>,
       lnk |-> <<El(5, Rel("/n1")), El(5, Rel("/n1")), El(6, None),
                 El(7, Rel("/n1")), El(8, Abs(OtherHost, "/n1"))>>],
      \* below every threshold
      [sel |-> << <<El(1, Rel("/n1"))>> >>,
       art |-> <<El(1, Rel("/n1")), El(2, Rel("/n2"))>>,
       lnk |-> <<El(5, Rel("/n1")), El(6, Rel("/n2")), El(7, Rel("/n3"))>>],
      \* teasers located, but no link survives resolution
      [sel |-> << <<>> >>,
       art |-> <<El(1, None), El(2, Abs(OtherHost, "/n1")), El(3, Tmpl("/n1"))>>,
       lnk |-> <<>>] }

\* async_scraper.py 204-226: the first selector with more than min_articles
\* elements, else all <article> if at least min_articles, else the link
\* containers if more than min_articles.
RECURSIVE FirstSelector(_)
FirstSelector(sel) ==
    IF sel = <<>> THEN <<>>
    ELSE IF Len(Head(sel)) > MinArticlesFound THEN Head(sel)
    ELSE FirstSelector(Tail(sel))

RECURSIVE DedupElems(_, _)
DedupElems(seq, acc) ==
    IF seq = <<>> THEN acc
    ELSE DedupElems(Tail(seq),
                    IF \E k \in 1..Len(acc) : acc[k] = Head(seq)
                    THEN acc ELSE Append(acc, Head(seq)))

LocateArticles(doc) ==
    LET bySel == FirstSelector(doc.sel) IN
    IF bySel # <<>> THEN bySel
    ELSE IF doc.art # <<>> /\ Len(doc.art) >= MinArticlesFound THEN doc.art
    ELSE LET cont == DedupElems(doc.lnk, <<>>) IN
         IF Len(cont) > MinArticlesFound THEN cont ELSE <<>>

\* AcceptUrl as it would be without the same-domain test.
AcceptUrlAnyDomain(u, srcHost, seen) ==
    /\ \A k \in 1..Len(seen) : seen[k] # [host |-> u.host, path |-> u.path]
    /\ ~u.tmpl

\* async_scraper.py 241-243: the test a resolved URL must pass.
AcceptUrl(u, srcHost, seen) ==
    /\ \A k \in 1..Len(seen) : seen[k] # [host |-> u.host, path |-> u.path]
    /\ ~u.tmpl
    /\ srcHost = u.host

\* async_scraper.py 232-245: the first link of every article, resolved.
RECURSIVE ResolveUrls(_, _, _)
ResolveUrls(arts, srcHost, acc) ==
    IF arts = <<>> THEN acc
    ELSE LET a == Head(arts)
             u == urljoin(srcHost, a.href[1])
         IN ResolveUrls(Tail(arts), srcHost,
                IF a.href # None /\ AcceptUrl(u, srcHost, acc)
                THEN Append(acc, [host |-> u.host, path |-> u.path])
                ELSE acc)

(***************************************************************************)
(* Article pages.  A paragraph is its number of base characters n and of   *)
(* combining marks m.  A page is its <h1> text, its og:title and its body  *)
(* containers: for each kind of container present (numbered as in          *)
(* ContentParser.BODY_CONTAINERS), the paragraphs of every element of that *)
(* kind, in document order.                                                *)
(***************************************************************************)
Par(n, m) == [n |-> n, m |-> m]
Cont(kind, same) == [kind |-> kind, same |-> same]

\* content_parser.py 25-36: 1 div.itemFullText, 2 article.article-body-width,
\* 3 article.article-body, 4 div.entry-content, 5 article, 6 div.content,
\* 7 div.article-body, 8 div.article-content, 9 div.post-content,
\* 10 div.nota-content.  The kind without a class name:
ClasslessKind == 5

\* async_scraper.py 142-149: the containers the inline extractor looks for.
LegacyKinds == {1, 2, 4, 5, 6, 7}

ArticlePages ==
    { \* a heading and a body of two paragraphs
      [h1 |-> <<"a">>, og |-> <<>>,
       conts |-> <<Cont(4, << <<Par(60, 0), Par(60, 5)>> >>)>>],
      \* a heading of marks only, the title in og:title
      [h1 |-> <<"m">>, og |-> <<"a", "m">>,
       conts |-> <<Cont(5, << <<Par(60, 0), Par(60, 0)>> >>)>>],
      \* no title at all
      [h1 |-> <<>>, og |-> <<>>,
       conts |-> <<Cont(4, << <<Par(60, 0), Par(60, 0)>> >>)>>],
      \* a body that is too short
      [h1 |-> <<"a">>, og |-> <<>>,
       conts |-> <<Cont(1, << <<Par(30, 0), Par(30, 0), Par(10, 0)>> >>)>>],
      \* a single long paragraph
      [h1 |-> <<"a">>, og |-> <<>>,
       conts |-> <<Cont(6, << <<Par(200, 0)>> >>)>>],
      \* the article split over two containers of one class
      [h1 |-> <<"a">>, og |-> <<>>,
       conts |-> <<Cont(2, << <<Par(60, 0)>>, <<Par(60, 0)>> >>)>>],
      \* no body container
      [h1 |-> <<"a">>, og |-> <<>>, conts |-> <<>>] }

\* "\n\n".join(normalizar_texto(p) for p in paragraphs if len(p) > min_len):
\* the length of the joined text.
JoinedLength(pars) ==
    LET kept == SelectSeq(pars, LAMBDA p : p.n + p.m > MinParagraphLength)
        lens == [k \in 1..Len(kept) |-> kept[k].n]
    IN IF kept = <<>> THEN 0 ELSE SumSeq(lens) + 2 * (Len(kept) - 1)

\* async_scraper.py 99-110
TitleLegacy(page) ==
    LET t == normalizar_texto(page.h1) IN
    IF t # <<>> THEN t ELSE
    IF page.og # <<>> THEN normalizar_texto(page.og) ELSE <<>>

\* content_parser.py 42-68
extraer_titulo(page) ==
    LET t == normalizar_texto(page.h1) IN
    IF page.h1 # <<>> /\ t # <<>> THEN t
    ELSE IF page.og # <<>> THEN normalizar_texto(page.og) ELSE <<>>

\* async_scraper.py 140-162: the first container found that has enough
\* paragraphs gives the body, whatever is left of them.
RECURSIVE BodyLegacy(_)
BodyLegacy(conts) ==
    IF conts = <<>> THEN 0
    ELSE LET c == Head(conts)
             paragraphs == c.same[1]
         IN IF /\ c.kind \in LegacyKinds
               /\ paragraphs # <<>>
               /\ Len(paragraphs) >= MinParagraphs
            THEN JoinedLength(paragraphs)
            ELSE BodyLegacy(Tail(conts))

RECURSIVE Flatten(_)
Flatten(ss) == IF ss = <<>> THEN <<>> ELSE Head(ss) \o Flatten(Tail(ss))

\* content_parser.py 94-149: the first container with enough paragraphs and a
\* non-empty joined text; failing that, the paragraphs of all the containers
\* of the same class together; failing that, the next kind of container.
RECURSIVE extraer_cuerpo(_)
extraer_cuerpo(conts) ==
    IF conts = <<>> THEN 0
    ELSE LET c == Head(conts)
             paragraphs == c.same[1]
             all_paragraphs == Flatten(c.same)
         IN IF /\ paragraphs # <<>>
               /\ Len(paragraphs) >= MinParagraphs
               /\ JoinedLength(paragraphs) > 0
            THEN JoinedLength(paragraphs)
            ELSE IF /\ c.kind # ClasslessKind
                    /\ Len(c.same) > 1
                    /\ Len(all_paragraphs) >= MinParagraphs
                    /\ JoinedLength(all_paragraphs) > 0
                 THEN JoinedLength(all_paragraphs)
                 ELSE extraer_cuerpo(Tail(conts))

\* content_parser.py 151-163
es_contenido_valido(titulo, cuerpo) == titulo # <<>> /\ cuerpo >= MinBodyLength

\* NoticiaRaises as it would be without the check of the title.
NoticiaRaisesWithoutTitle(url, source, title) ==
    \/ (url.host = <<>> /\ url.path = "")
    \/ source = ""

\* models/noticia.py 22-29: __post_init__ raises on an empty url, source or title.
NoticiaRaises(url, source, title) ==
    \/ (url.host = <<>> /\ url.path = "")
    \/ source = ""
    \/ title = <<>>

Noticia(url, source, title, body) ==
    IF NoticiaRaises(url, source, title) THEN None
    ELSE Some([url |-> url, source |-> source, title |-> title, body |-> body])

\* async_scraper.py 164-178: invalid content gives None, else the record; a
\* ValueError of the constructor is caught and gives None.
ExtractLegacy(url, source, page) ==
    LET title == TitleLegacy(page)
        body == BodyLegacy(page.conts)
    IN IF title = <<>> \/ body < MinBodyLength THEN None
       ELSE Noticia(url, source, title, body)

\* news_extractor.py 56-75
ExtractModular(url, source, page) ==
    LET title == extraer_titulo(page)
        body == extraer_cuerpo(page.conts)
    IN IF ~es_contenido_valido(title, body) THEN None
       ELSE Noticia(url, source, title, body)

(***************************************************************************)
(* Fetching.  A response is its kind and, for an HTTP response, the page.  *)
(***************************************************************************)
FetchKinds == {"ok", "http_error", "timeout", "network_error", "empty"}

\* async_scraper.py 47-78: the status is not looked at; a timeout or any
\* other exception gives None.
fetch_html(kind) ==
    IF kind \in {"ok", "http_error"} THEN "text"
    ELSE IF kind = "empty" THEN "" ELSE "None"

\* async_client.py 54-104: a status >= 400 gives None as well.
ClientFetchHtml(kind) ==
    IF kind = "ok" THEN "text"
    ELSE IF kind = "empty" THEN "" ELSE "None"

\* `if not html`: None and the empty text are both a failed fetch.
NotHtml(html) == html \in {"None", ""}

Impls == {"legacy", "modular"}


(***************************************************************************)
(* The run.                                                                *)
(*   impl    which per-URL task the run uses                               *)
(*   nsrc    number of sources; cap  max_concurrent_requests               *)
(*   sem     value of the shared asyncio.Semaphore                         *)
(*   conn    connections the TCPConnector(limit=cap) has handed out        *)
(*   spc     where each extraer_noticias_portada_async coroutine stands    *)
(*   doc, arts, urls   its fetched front page, located articles, URLs      *)
(*   frontFetches      how many times its front page was requested         *)
(*   artFetches        how many article pages were requested for it        *)
(*   tpc, tres, tend   per URL: the task's position, its result, how it    *)
(*                     ended                                               *)
(*   results what each source returned; rpc, todas: the run and its result *)
(***************************************************************************)
VARIABLES impl, nsrc, cap, sem, conn, spc, doc, arts, urls, frontFetches,
          artFetches, tpc, tres, tend, results, rpc, todas

\* The variables of the components taken on their own (ufn, uin, uout: the
\* function applied, its input and its result).
VARIABLES ufn, uin, uout

unitVars == <<ufn, uin, uout>>

(***************************************************************************)
(* The variables of main.py, of the classification pass and of storage.    *)
(*   mpc        where the script stands                                    *)
(*   configured SOURCES: for each configured source, whether it is enabled *)
(*   aiOn       whether get_ai_filter gave a filter                        *)
(*   heap, born the Noticia objects of the run as they are and as they     *)
(*              were constructed                                           *)
(*   noticias   the script's list of them (positions in heap)              *)
(*   fetches    the fetches the scrape has issued                          *)
(*   ai_i, relevant_noticias, ai_stats   the loop of filter_noticias       *)
(*   answers    the response the service gave for each record analysed     *)
(*   dbpc, batch, db_i, stats   the loop of insert_noticias_bulk           *)
(*   stored, uncommitted   the urls of the committed rows of the news      *)
(*              table and of the rows of the open transaction              *)
(*   outcomes   how each record of the batch was counted                   *)
(*   ncall, first   which insertion of the batch this is, and what the     *)
(*              first one reported and left stored                         *)
(***************************************************************************)
VARIABLES mpc, configured, aiOn, heap, born, noticias, fetches, ai_i,
          relevant_noticias, ai_stats, answers, dbpc, batch, db_i, stats,
          stored, uncommitted, outcomes, ncall, first

scriptVars == <<mpc, configured, aiOn, heap, born, noticias, fetches>>
aiVars == <<ai_i, relevant_noticias, ai_stats, answers>>
dbVars == <<dbpc, batch, db_i, stats, stored, uncommitted, outcomes, ncall, first>>
mainVars == <<scriptVars, aiVars, dbVars>>
restVars == <<unitVars, mainVars>>

vars == <<impl, nsrc, cap, sem, conn, spc, doc, arts, urls, frontFetches,
          artFetches, tpc, tres, tend, results, rpc, todas, restVars>>

runVars == <<impl, nsrc, cap, sem, conn, spc, doc, arts, urls, frontFetches,
             artFetches, tpc, tres, tend, results, rpc, todas>>

\* no component is being exercised on its own
UnitIdle == ufn = "none" /\ uin = None /\ uout = None

NoStats == [insertadas |-> 0, duplicadas |-> 0, errores |-> 0]
NoAIStats == [total_analyzed |-> 0, relevant |-> 0, not_relevant |-> 0, errors |-> 0]

\* the classification pass has not begun
AIIdle ==
    /\ ai_i = 0 /\ relevant_noticias = <<>> /\ ai_stats = NoAIStats /\ answers = <<>>

\* no bulk insert has begun
StorageIdle ==
    /\ dbpc = "idle" /\ batch = <<>> /\ db_i = 0 /\ stats = NoStats
    /\ stored = {} /\ uncommitted = {} /\ outcomes = <<>> /\ ncall = 0
    /\ first = None

\* the script is not running
ScriptIdle ==
    /\ mpc = "idle" /\ configured = <<>> /\ aiOn = FALSE /\ heap = <<>>
    /\ born = <<>> /\ noticias = <<>> /\ fetches = 0

MainIdle == ScriptIdle /\ AIIdle /\ StorageIdle

SourceIds == 1..MaxSources
Srcs == 1..nsrc
Tasks(s) == 1..Len(tpc[s])

\* async_scraper.py 288-299: the semaphore and the connector are created, one
\* coroutine per source is handed to gather.
Init ==
    /\ impl \in Impls
    /\ nsrc \in 0..MaxSources
    /\ cap \in 1..MaxCap
    /\ sem = cap
    /\ conn = 0
    /\ spc = [s \in SourceIds |-> "pending"]
    /\ doc = [s \in SourceIds |-> None]
    /\ arts = [s \in SourceIds |-> <<>>]
    /\ urls = [s \in SourceIds |-> <<>>]
    /\ frontFetches = [s \in SourceIds |-> 0]
    /\ artFetches = [s \in SourceIds |-> 0]
    /\ tpc = [s \in SourceIds |-> <<>>]
    /\ tres = [s \in SourceIds |-> <<>>]
    /\ tend = [s \in SourceIds |-> <<>>]
    /\ results = [s \in SourceIds |-> <<>>]
    /\ rpc = "gathering"
    /\ todas = <<>>
    /\ UnitIdle
    /\ MainIdle

\* async_scraper.py 195: the front page is requested; no permit is taken.
FrontRequest(s) ==
    /\ spc[s] = "pending"
    /\ spc' = [spc EXCEPT ![s] = "front_requested"]
    /\ frontFetches' = [frontFetches EXCEPT ![s] = @ + 1]
    /\ UNCHANGED <<restVars, impl, nsrc, cap, sem, conn, doc, arts, urls, artFetches, tpc,
                   tres, tend, results, rpc, todas>>

\* FrontConnect as it would be with a connector that has no limit.
FrontConnectUnlimited(s) ==
    /\ spc[s] = "front_requested"
    /\ conn' = conn + 1
    /\ spc' = [spc EXCEPT ![s] = "front_connected"]
    /\ UNCHANGED <<restVars, impl, nsrc, cap, sem, doc, arts, urls, frontFetches, artFetches,
                   tpc, tres, tend, results, rpc, todas>>

\* async_scraper.py 51, 291: session.get obtains one of the connector's
\* connections.
FrontConnect(s) ==
    /\ spc[s] = "front_requested"
    /\ conn < cap
    /\ conn' = conn + 1
    /\ spc' = [spc EXCEPT ![s] = "front_connected"]
    /\ UNCHANGED <<restVars, impl, nsrc, cap, sem, doc, arts, urls, frontFetches, artFetches, tpc, tres,
                   tend, results, rpc, todas>>

\* AfterFrontFetch as it would be if a failed front-page fetch were tried again.
AfterFrontFetchRetrying(s, html, page) ==
    IF NotHtml(html)
    THEN /\ spc' = [spc EXCEPT ![s] = "pending"]
         /\ doc' = doc
    ELSE /\ spc' = [spc EXCEPT ![s] = "front_page_fetched"]
         /\ doc' = [doc EXCEPT ![s] = Some(page)]

\* async_scraper.py 195-200: what the source does with the fetched text.
AfterFrontFetch(s, html, page) ==
    IF NotHtml(html)
    THEN /\ spc' = [spc EXCEPT ![s] = "failed_fetch"]
         /\ doc' = doc
    ELSE /\ spc' = [spc EXCEPT ![s] = "front_page_fetched"]
         /\ doc' = [doc EXCEPT ![s] = Some(page)]

\* async_scraper.py 47-78, 195-200: the response (or the failure) arrives.
FrontResponse(s) ==
    /\ spc[s] = "front_connected"
    /\ conn' = conn - 1
    /\ \E kind \in FetchKinds, page \in FrontPages(s) :
          AfterFrontFetch(s, fetch_html(kind), page)
    /\ UNCHANGED <<restVars, impl, nsrc, cap, sem, arts, urls, frontFetches, artFetches, tpc, tres, tend,
                   results, rpc, todas>>

\* async_scraper.py 50, 75-76: the total timeout expires while the request
\* waits for a connection.
FrontTimeout(s) ==
    /\ spc[s] = "front_requested"
    /\ AfterFrontFetch(s, fetch_html("timeout"), None)
    /\ UNCHANGED <<restVars, impl, nsrc, cap, sem, conn, arts, urls, frontFetches, artFetches, tpc, tres,
                   tend, results, rpc, todas>>

\* async_scraper.py 204-230
Locate(s) ==
    /\ spc[s] = "front_page_fetched"
    /\ LET found == LocateArticles(doc[s][1]) IN
          /\ arts' = [arts EXCEPT ![s] = found]
          /\ spc' = [spc EXCEPT ![s] =
                        IF found = <<>> THEN "failed_empty" ELSE "articles_located"]
    /\ UNCHANGED <<restVars, impl, nsrc, cap, sem, conn, doc, urls, frontFetches, artFetches, tpc, tres,
                   tend, results, rpc, todas>>

\* async_scraper.py 232-247
Resolve(s) ==
    /\ spc[s] = "articles_located"
    /\ urls' = [urls EXCEPT ![s] = ResolveUrls(arts[s], SourceHost(s), <<>>)]
    /\ spc' = [spc EXCEPT ![s] = "urls_resolved"]
    /\ UNCHANGED <<restVars, impl, nsrc, cap, sem, conn, doc, arts, frontFetches, artFetches, tpc, tres,
                   tend, results, rpc, todas>>

\* async_scraper.py 263-266: an exception raised while the front page is
\* parsed or its links are resolved ends the source with no record.
DiscoveryRaises(s) ==
    /\ spc[s] \in {"front_page_fetched", "articles_located"}
    /\ spc' = [spc EXCEPT ![s] = "failed_error"]
    /\ UNCHANGED <<restVars, impl, nsrc, cap, sem, conn, doc, arts, urls, frontFetches, artFetches, tpc,
                   tres, tend, results, rpc, todas>>

\* Schedule as it would be if the tasks were started as soon as the articles
\* are located, before their URLs are resolved.
ScheduleBeforeResolve(s) ==
    /\ spc[s] = "articles_located"
    /\ tpc' = [tpc EXCEPT ![s] = [i \in 1..Len(urls[s]) |-> "waiting"]]
    /\ tres' = [tres EXCEPT ![s] = [i \in 1..Len(urls[s]) |-> None]]
    /\ tend' = [tend EXCEPT ![s] = [i \in 1..Len(urls[s]) |-> "running"]]
    /\ spc' = [spc EXCEPT ![s] = "extracting"]
    /\ UNCHANGED <<restVars, impl, nsrc, cap, sem, conn, doc, arts, urls, frontFetches,
                   artFetches, results, rpc, todas>>

\* Schedule as it would be with one task per located article instead of one
\* per resolved URL.
ScheduleFromArticles(s) ==
    /\ spc[s] = "urls_resolved"
    /\ tpc' = [tpc EXCEPT ![s] = [i \in 1..Len(arts[s]) |-> "waiting"]]
    /\ tres' = [tres EXCEPT ![s] = [i \in 1..Len(arts[s]) |-> None]]
    /\ tend' = [tend EXCEPT ![s] = [i \in 1..Len(arts[s]) |-> "running"]]
    /\ spc' = [spc EXCEPT ![s] = "extracting"]
    /\ UNCHANGED <<restVars, impl, nsrc, cap, sem, conn, doc, arts, urls, frontFetches,
                   artFetches, results, rpc, todas>>

\* async_scraper.py 250-255: one task per resolved URL, handed to gather.
Schedule(s) ==
    /\ spc[s] = "urls_resolved"
    /\ tpc' = [tpc EXCEPT ![s] = [i \in 1..Len(urls[s]) |-> "waiting"]]
    /\ tres' = [tres EXCEPT ![s] = [i \in 1..Len(urls[s]) |-> None]]
    /\ tend' = [tend EXCEPT ![s] = [i \in 1..Len(urls[s]) |-> "running"]]
    /\ spc' = [spc EXCEPT ![s] = "extracting"]
    /\ UNCHANGED <<restVars, impl, nsrc, cap, sem, conn, doc, arts, urls, frontFetches, artFetches,
                   results, rpc, todas>>

\* Acquire as it would be if the task did not wait for a free permit.
AcquireWithoutWaiting(s, i) ==
    /\ tpc[s][i] = "waiting"
    /\ sem' = sem - 1
    /\ tpc' = [tpc EXCEPT ![s][i] = "requested"]
    /\ artFetches' = [artFetches EXCEPT ![s] = @ + 1]
    /\ UNCHANGED <<restVars, impl, nsrc, cap, conn, spc, doc, arts, urls, frontFetches, tres,
                   tend, results, rpc, todas>>

\* async_scraper.py 91-93 / news_extractor.py 48-50: the permit is taken and
\* the article is requested.
Acquire(s, i) ==
    /\ tpc[s][i] = "waiting"
    /\ sem > 0
    /\ sem' = sem - 1
    /\ tpc' = [tpc EXCEPT ![s][i] = "requested"]
    /\ artFetches' = [artFetches EXCEPT ![s] = @ + 1]
    /\ UNCHANGED <<restVars, impl, nsrc, cap, conn, spc, doc, arts, urls, frontFetches, tres,
                   tend, results, rpc, todas>>

TaskConnect(s, i) ==
    /\ tpc[s][i] = "requested"
    /\ conn < cap
    /\ conn' = conn + 1
    /\ tpc' = [tpc EXCEPT ![s][i] = "connected"]
    /\ UNCHANGED <<restVars, impl, nsrc, cap, sem, spc, doc, arts, urls, frontFetches, artFetches, tres,
                   tend, results, rpc, todas>>

\* The fetch of the task's implementation.
TaskFetch(kind) == IF impl = "legacy" THEN fetch_html(kind) ELSE ClientFetchHtml(kind)

\* The extraction of the task's implementation.
Extract(url, source, page) ==
    IF impl = "legacy" THEN ExtractLegacy(url, source, page)
    ELSE ExtractModular(url, source, page)

\* TaskEnds as it would be if the permit were released at the end of the body
\* instead of by `async with`: an exception skips the release.
TaskEndsKeepingPermitOnException(s, i, r, why) ==
    /\ tres' = [tres EXCEPT ![s][i] = r]
    /\ tend' = [tend EXCEPT ![s][i] = why]
    /\ tpc' = [tpc EXCEPT ![s][i] = "finished"]
    /\ sem' = IF why = "raised" THEN sem ELSE sem + 1

\* TaskEnds as it would be if a failed fetch returned before the release.
TaskEndsKeepingPermitOnFailure(s, i, r, why) ==
    /\ tres' = [tres EXCEPT ![s][i] = r]
    /\ tend' = [tend EXCEPT ![s][i] = why]
    /\ tpc' = [tpc EXCEPT ![s][i] = "finished"]
    /\ sem' = IF why = "fetch_failed" THEN sem ELSE sem + 1

\* async_scraper.py 91-178 / news_extractor.py 48-75: the task ends with
\* result r for reason why, and `async with` gives the permit back.
TaskEnds(s, i, r, why) ==
    /\ tres' = [tres EXCEPT ![s][i] = r]
    /\ tend' = [tend EXCEPT ![s][i] = why]
    /\ tpc' = [tpc EXCEPT ![s][i] = "finished"]
    /\ sem' = sem + 1

\* What the task makes of the fetched text: no text, a page that raises while
\* it is parsed, invalid content, or a record.
AfterTaskFetch(s, i, html, page, raises) ==
    IF NotHtml(html) THEN TaskEnds(s, i, None, "fetch_failed")
    ELSE IF raises THEN TaskEnds(s, i, None, "raised")
    ELSE LET r == Extract(urls[s][i], SourceName(s), page) IN
         TaskEnds(s, i, r, IF r = None THEN "invalid" ELSE "valid")

TaskResponse(s, i) ==
    /\ tpc[s][i] = "connected"
    /\ conn' = conn - 1
    /\ \E kind \in FetchKinds, page \in ArticlePages, raises \in BOOLEAN :
          AfterTaskFetch(s, i, TaskFetch(kind), page, raises)
    /\ UNCHANGED <<restVars, impl, nsrc, cap, spc, doc, arts, urls, frontFetches, artFetches, results,
                   rpc, todas>>

TaskTimeout(s, i) ==
    /\ tpc[s][i] = "requested"
    /\ AfterTaskFetch(s, i, TaskFetch("timeout"), None, FALSE)
    /\ UNCHANGED <<restVars, impl, nsrc, cap, conn, spc, doc, arts, urls, frontFetches, artFetches,
                   results, rpc, todas>>

\* NotNone as it would be if one failed task made the source give up.
RECURSIVE KeepAll(_)
KeepAll(rs) == IF rs = <<>> THEN <<>> ELSE Head(rs) \o KeepAll(Tail(rs))
NoneAborts(rs) ==
    IF \E k \in 1..Len(rs) : rs[k] = None THEN <<>> ELSE KeepAll(rs)

\* async_scraper.py 256: [n for n in resultados if n is not None]
RECURSIVE NotNone(_)
NotNone(rs) ==
    IF rs = <<>> THEN <<>>
    ELSE Head(rs) \o NotNone(Tail(rs))

\* GatherDone as it would be if the source went on at the first finished task.
FirstTaskDone(s) == \E i \in Tasks(s) : tpc[s][i] = "finished"

\* async_scraper.py 255: gather returns once every task has finished.
GatherDone(s) == \A i \in Tasks(s) : tpc[s][i] = "finished"

\* async_scraper.py 255-261
FinishSource(s) ==
    /\ spc[s] = "extracting"
    /\ GatherDone(s)
    /\ results' = [results EXCEPT ![s] = NotNone(tres[s])]
    /\ spc' = [spc EXCEPT ![s] = "done"]
    /\ UNCHANGED <<restVars, impl, nsrc, cap, sem, conn, doc, arts, urls, frontFetches, artFetches, tpc,
                   tres, tend, rpc, todas>>

Returned == {"done", "failed_empty", "failed_fetch", "failed_error"}

RECURSIVE Extend(_)
Extend(s) == IF s = 0 THEN <<>> ELSE Extend(s - 1) \o results[s]

\* async_scraper.py 299-317
ReturnRun ==
    /\ rpc = "gathering"
    /\ \A s \in Srcs : spc[s] \in Returned
    /\ todas' = Extend(nsrc)
    /\ rpc' = "returned"
    /\ UNCHANGED <<restVars, impl, nsrc, cap, sem, conn, spc, doc, arts, urls, frontFetches, artFetches,
                   tpc, tres, tend, results>>

Next ==
    \/ \E s \in Srcs : FrontRequest(s)
    \/ \E s \in Srcs : FrontConnect(s)
    \/ \E s \in Srcs : FrontResponse(s)
    \/ \E s \in Srcs : FrontTimeout(s)
    \/ \E s \in Srcs : Locate(s)
    \/ \E s \in Srcs : Resolve(s)
    \/ \E s \in Srcs : DiscoveryRaises(s)
    \/ \E s \in Srcs : Schedule(s)
    \/ \E s \in Srcs : \E i \in Tasks(s) : Acquire(s, i)
    \/ \E s \in Srcs : \E i \in Tasks(s) : TaskConnect(s, i)
    \/ \E s \in Srcs : \E i \in Tasks(s) : TaskResponse(s, i)
    \/ \E s \in Srcs : \E i \in Tasks(s) : TaskTimeout(s, i)
    \/ \E s \in Srcs : FinishSource(s)
    \/ ReturnRun

Spec == Init /\ [][Next]_vars


(***************************************************************************)
(* The states of a source, in the words of the design: the positions of    *)
(* the coroutine up to the return of the front-page fetch are "pending";   *)
(* a source ended by an exception of its discovery steps (async_scraper.py *)
(* 263-266) has found nothing and counts as "failed_empty".                *)
(***************************************************************************)
SourceState(s) ==
    CASE spc[s] \in {"pending", "front_requested", "front_connected"} -> "pending"
      [] spc[s] = "failed_error" -> "failed_empty"
      [] OTHER -> spc[s]

Terminal == {"done", "failed_empty", "failed_fetch"}

AllTasks == UNION {{<<s, i>> : i \in Tasks(s)} : s \in Srcs}

\* a task holds a permit from its acquire to its end
HoldsPermit(s, i) == tpc[s][i] \in {"requested", "connected"}
Holders == {st \in AllTasks : HoldsPermit(st[1], st[2])}
Waiting == {st \in AllTasks : tpc[st[1]][st[2]] = "waiting"}

FrontInFlight == {s \in Srcs : spc[s] \in {"front_requested", "front_connected"}}
FrontConnected == {s \in Srcs : spc[s] = "front_connected"}
TasksConnected == {st \in AllTasks : tpc[st[1]][st[2]] = "connected"}

Records == {todas[k] : k \in 1..Len(todas)}
Ended(why) == {st \in AllTasks : tend[st[1]][st[2]] = why}

(***************************************************************************)
(* C1: at every moment the number of extraction tasks that have acquired   *)
(* the shared semaphore and not yet released it is at most                 *)
(* max_concurrent_requests, over all sources together.                     *)
(***************************************************************************)
C1_HoldersWithinCap == Cardinality(Holders) <= cap

\* the cap is reached by tasks of two sources while another task waits
C1_Witness ==
    /\ cap = 2
    /\ Cardinality(Holders) = cap
    /\ \E a, b \in Holders : a[1] # b[1]
    /\ Waiting # {}

C3_PermitsReleased ==
    /\ sem = cap - Cardinality(Holders)
    /\ (\A st \in AllTasks : tpc[st[1]][st[2]] = "finished") => sem = cap

\* a finished run whose tasks ended in each of the four ways
C3_Witness ==
    /\ rpc = "returned"
    /\ \A why \in {"valid", "invalid", "fetch_failed", "raised"} : Ended(why) # {}
    /\ sem = cap

(***************************************************************************)
(* C4: a failed extraction task yields no record for its URL only: every   *)
(* sibling task and every other source still runs to completion, and the   *)
(* records of all valid tasks are in the run's result.                     *)
(***************************************************************************)
C4_FailureIsolated ==
    rpc = "returned" =>
        \A st \in AllTasks :
            LET s == st[1]
                i == st[2]
                own == {r \in Records : r.url = urls[s][i] /\ r.source = SourceName(s)}
            IN /\ tpc[s][i] = "finished"
               /\ tend[s][i] = "valid" => tres[s][i] # None /\ tres[s][i][1] \in own
               /\ tend[s][i] # "valid" => own = {}

\* a finished run in which a task failed, a sibling and a task of another
\* source gave a record
C4_Witness ==
    /\ rpc = "returned"
    /\ \E a, b, c \in AllTasks :
          /\ a[1] = b[1] /\ a[1] # c[1]
          /\ tend[a[1]][a[2]] \in {"fetch_failed", "raised", "invalid"}
          /\ tend[b[1]][b[2]] = "valid"
          /\ tend[c[1]][c[2]] = "valid"
    /\ Len(todas) >= 2


(***************************************************************************)
(* The run under fair scheduling: the event loop runs every coroutine that *)
(* can go on, and every fetch returns (text, failure or timeout).          *)
(***************************************************************************)
LiveSpec == Init /\ [][Next]_vars /\ WF_vars(Next)

(***************************************************************************)
(* C5: if every fetch eventually returns and tasks are scheduled fairly,   *)
(* every source eventually reaches a terminal state (done, failed_empty or *)
(* failed_fetch), the run eventually returns its aggregated result, and no *)
(* task waits forever for a permit.                                        *)
(***************************************************************************)
C5_RunCompletes ==
    <>[](/\ rpc = "returned"
         /\ \A s \in Srcs : SourceState(s) \in Terminal
         /\ Waiting = {})

\* a finished run of two sources and four tasks that shared a single permit
C5_Witness ==
    /\ rpc = "returned"
    /\ cap = 1
    /\ nsrc = 2
    /\ Cardinality(AllTasks) = 4
    /\ Waiting = {}

(***************************************************************************)
(* C6: a source goes through pending, front_page_fetched,                  *)
(* articles_located, urls_resolved, extracting and a terminal state in     *)
(* this order only: discovery works on a fetched front page, and every     *)
(* extraction task is for a URL that resolution has produced.              *)
(***************************************************************************)
Rank(st) ==
    CASE st = "pending" -> 0
      [] st = "front_page_fetched" -> 1
      [] st = "articles_located" -> 2
      [] st = "urls_resolved" -> 3
      [] st = "extracting" -> 4
      [] OTHER -> 5

StepInOrder(s) ==
    SourceState(s)' # SourceState(s) =>
        /\ SourceState(s) \notin Terminal
        /\ \/ SourceState(s)' \in Terminal
           \/ Rank(SourceState(s)') = Rank(SourceState(s)) + 1

Discovered(s) ==
    /\ Rank(SourceState(s)) < 1 => doc[s] = None
    /\ Rank(SourceState(s)) < 2 => arts[s] = <<>>
    /\ Rank(SourceState(s)) < 3 => urls[s] = <<>>
    /\ arts[s] # <<>> => doc[s] # None
    /\ Tasks(s) # {} => /\ SourceState(s) \in {"extracting", "done"}
                        /\ Len(tpc[s]) = Len(urls[s])

C6_StepsInOrder ==
    /\ [](\A s \in SourceIds : Discovered(s))
    /\ [][\A s \in SourceIds : StepInOrder(s)]_vars

\* a source that went all the way and has its tasks running
C6_Witness ==
    \E s \in Srcs :
        /\ SourceState(s) = "extracting"
        /\ Len(urls[s]) = 2
        /\ \E i \in Tasks(s) : tpc[s][i] = "connected"

(***************************************************************************)
(* C7: a source whose front-page fetch failed ends with zero records, no   *)
(* extraction task is ever scheduled for it, and no front page is fetched  *)
(* a second time within the run.                                           *)
(***************************************************************************)
NoRecordOf(s) ==
    /\ results[s] = <<>>
    /\ \A r \in Records : r.source # SourceName(s)

C7_FailedFetchIsFinal ==
    /\ [](\A s \in SourceIds :
            /\ frontFetches[s] <= 1
            /\ spc[s] = "failed_fetch" =>
                  /\ frontFetches[s] = 1
                  /\ Tasks(s) = {}
                  /\ artFetches[s] = 0
                  /\ NoRecordOf(s))
    /\ [][\A s \in SourceIds :
            spc[s] = "failed_fetch" => spc'[s] = "failed_fetch"]_vars

\* the run has returned records, none of the source whose front page failed
C7_Witness ==
    /\ rpc = "returned"
    /\ todas # <<>>
    /\ \E s \in Srcs : spc[s] = "failed_fetch" /\ frontFetches[s] = 1

(***************************************************************************)
(* C8: when article location returns no candidates, or URL resolution      *)
(* returns no URLs, the source ends with zero records and performs no      *)
(* article fetch at all.                                                   *)
(***************************************************************************)
NothingLocated(s) == spc[s] = "failed_empty"
NothingResolved(s) == Rank(SourceState(s)) >= 3 /\ arts[s] # <<>> /\ urls[s] = <<>>

C8_EmptyDiscoveryFetchesNothing ==
    \A s \in SourceIds :
        NothingLocated(s) \/ NothingResolved(s) =>
            /\ artFetches[s] = 0
            /\ \A i \in Tasks(s) : tpc[s][i] = "waiting"
            /\ NoRecordOf(s)
            /\ rpc = "returned" => SourceState(s) \in Terminal

\* a finished run with a source of each kind
C8_Witness ==
    /\ rpc = "returned"
    /\ \E s \in Srcs : NothingLocated(s)
    /\ \E s \in Srcs : NothingResolved(s) /\ spc[s] = "done"

(***************************************************************************)
(* C9: a source is done only after every one of its extraction tasks has   *)
(* completed, and what it returns is exactly the records of the tasks that *)
(* gave a validated record: at most one per resolved URL, none for a       *)
(* failed URL.                                                             *)
(***************************************************************************)
ResultsOf(s) == {results[s][k] : k \in 1..Len(results[s])}

C9_DoneAfterAllTasks ==
    \A s \in SourceIds :
        spc[s] = "done" =>
            /\ \A i \in Tasks(s) : tpc[s][i] = "finished"
            /\ Len(results[s]) = Cardinality({i \in Tasks(s) : tend[s][i] = "valid"})
            /\ Len(results[s]) <= Len(urls[s])
            /\ \A i \in Tasks(s) :
                  LET own == {k \in 1..Len(results[s]) : results[s][k].url = urls[s][i]}
                  IN IF tend[s][i] = "valid"
                     THEN Cardinality(own) = 1 /\ tres[s][i][1] \in ResultsOf(s)
                     ELSE own = {}
            /\ \A r \in ResultsOf(s) : \E i \in Tasks(s) : urls[s][i] = r.url

\* a source done with one record of its two tasks
C9_Witness ==
    \E s \in Srcs :
        /\ spc[s] = "done"
        /\ Len(urls[s]) = 2
        /\ Len(results[s]) = 1

(***************************************************************************)
(* C10: every record of a run's result has a non-empty title and a         *)
(* non-empty body, and its url is absolute with the host of its source's   *)
(* front page, a leading "www." being ignored on both sides.               *)
(***************************************************************************)
StripWww(h) == IF h # <<>> /\ Head(h) = "www." THEN Tail(h) ELSE h

C10_RecordsWellFormed ==
    \A s \in SourceIds : \A r \in ResultsOf(s) \cup {x \in Records : x.source = SourceName(s)} :
        /\ r.title # <<>>
        /\ r.body > 0
        /\ r.url.host # <<>>
        /\ StripWww(r.url.host) = StripWww(SourceHost(s))

\* the run returns a record of a source whose front page also linked to
\* another site and to the "www." variant of its own
HasLinkTo(s, h) ==
    \E k \in 1..Len(arts[s]) :
        arts[s][k].href # None /\ arts[s][k].href[1].host = h

C10_Witness ==
    /\ rpc = "returned"
    /\ \E s, u \in Srcs :
          /\ \E r \in Records : r.source = SourceName(s)
          /\ \E r \in Records : r.source = SourceName(u)
          /\ HasLinkTo(s, OtherHost)
          /\ HasLinkTo(u, WwwVariant(SourceHost(u)))


(***************************************************************************)
(* The components on their own: an input is drawn and the component is     *)
(* applied to it once.                                                     *)
(***************************************************************************)
MaxElems == 4

\* models/noticia.py 6-29: the dataclass constructor with the body and the
\* date given; body is the length of the text, "" being the default.
NoticiaWith(url, source, title, body, published_at) ==
    IF NoticiaRaises(url, source, title) THEN None
    ELSE Some([url |-> url, source |-> source, title |-> title, body |-> body,
               published_at |-> published_at])

EmptyUrl == [host |-> <<>>, path |-> ""]

NoticiaInputs ==
    [url : {EmptyUrl, [host |-> <<"a">>, path |-> "/n1"]},
     source : {"", "a"},
     title : {<<>>, <<"a">>},
     body : {0, 50, 120},
     published_at : {None, Some(1)}]

\* the constructor is applied to the fields drawn
ApplyNoticia ==
    /\ ufn = "Noticia"
    /\ uout = None
    /\ uout' = Some(NoticiaWith(uin.url, uin.source, uin.title, uin.body,
                                uin.published_at))
    /\ UNCHANGED <<ufn, uin, runVars, mainVars>>

Applied(fn) == ufn = fn /\ uout # None

(***************************************************************************)
(* C11, as claimed: an article record can be constructed only if url,      *)
(* source name, title and body are all non-empty; constructing one with    *)
(* any of the four empty fails, while an absent published_at never         *)
(* prevents construction.                                                  *)
(***************************************************************************)
C11_FourFieldsRequired ==
    Applied("Noticia") =>
        (uout[1] # None <=>
            /\ uin.url # EmptyUrl
            /\ uin.source # ""
            /\ uin.title # <<>>
            /\ uin.body > 0)

(***************************************************************************)
(* C11, amended: an article record can be constructed only if url, source  *)
(* name and title are all non-empty; constructing one with any of the      *)
(* three empty fails, while neither an empty body nor an absent            *)
(* published_at prevents construction, and the constructed record holds    *)
(* the fields as given.                                                    *)
(***************************************************************************)
C11_ThreeFieldsRequired ==
    Applied("Noticia") =>
        /\ uout[1] # None <=>
              /\ uin.url # EmptyUrl
              /\ uin.source # ""
              /\ uin.title # <<>>
        /\ uout[1] # None => uout[1][1] = uin

\* a record is constructed with an empty body and no date
C11_Witness ==
    /\ Applied("Noticia")
    /\ uout[1] # None
    /\ uin.body = 0
    /\ uin.published_at = None


(***************************************************************************)
(* ArticleFinder (app/extractors/article_finder.py).  A front page is the  *)
(* sequence of its teaser elements in document order; an element is its    *)
(* identity (its position), its tag, its class and the number of links     *)
(* inside it whose href matches a URL pattern.  Two elements have equal    *)
(* content when they differ in identity only.                              *)
(***************************************************************************)
ElemKinds ==
    {k \in [tag : {"article", "div"}, cls : {"", "news-article", "nota"}, links : 0..3] :
        \/ k.cls = ""
        \/ k.tag = "article" /\ k.cls = "news-article"
        \/ k.tag = "div" /\ k.cls = "nota"}

Docs == UNION {[1..k -> ElemKinds] : k \in 0..MaxElems}

Elems(d) ==
    [i \in 1..Len(d) |->
        [id |-> i, tag |-> d[i].tag, cls |-> d[i].cls, links |-> d[i].links]]

\* config/settings.py 62-83, three of the configured (tag, partial class) pairs
ARTICLE_SELECTORS ==
    << [tag |-> "article", cls |-> "news-article"],
       [tag |-> "article", cls |-> "article"],
       [tag |-> "div", cls |-> "nota"] >>

\* `class_name in x`: the configured name occurs inside the element's class
ClassContains(cls, class_name) ==
    \/ cls = class_name
    \/ cls = "news-article" /\ class_name = "article"

\* soup.find_all(tag, class_=...): the matching elements in document order
find_all(d, tag, class_name) ==
    SelectSeq(Elems(d), LAMBDA e : e.tag = tag /\ ClassContains(e.cls, class_name))

\* soup.find_all('article')
find_all_article(d) == SelectSeq(Elems(d), LAMBDA e : e.tag = "article")

\* the parent of every link whose href matches a URL pattern, link by link
RECURSIVE LinkParents(_)
LinkParents(es) ==
    IF es = <<>> THEN <<>>
    ELSE [k \in 1..Head(es).links |-> Head(es)] \o LinkParents(Tail(es))

SameContent(a, b) == a.tag = b.tag /\ a.cls = b.cls /\ a.links = b.links

\* `parent not in article_containers` compares elements by content
RECURSIVE DedupByContent(_, _)
DedupByContent(seq, acc) ==
    IF seq = <<>> THEN acc
    ELSE DedupByContent(Tail(seq),
                        IF \E k \in 1..Len(acc) : SameContent(acc[k], Head(seq))
                        THEN acc ELSE Append(acc, Head(seq)))

\* AppendNew as it would be without the set of elements already found.
AppendAll(acc, seq) == acc \o seq

\* `id(elem) not in found_elements`: elements are told apart by identity
RECURSIVE AppendNew(_, _)
AppendNew(acc, seq) ==
    IF seq = <<>> THEN acc
    ELSE AppendNew(IF \E k \in 1..Len(acc) : acc[k].id = Head(seq).id
                   THEN acc ELSE Append(acc, Head(seq)),
                   Tail(seq))

\* article_finder.py 69-90
buscar_por_url_patterns(d, min_articles) ==
    LET article_containers == DedupByContent(LinkParents(Elems(d)), <<>>) IN
    IF Len(article_containers) > min_articles THEN article_containers ELSE <<>>

\* article_finder.py 45-53: every configured selector adds its new matches
RECURSIVE BySelectors(_, _, _)
BySelectors(d, sels, acc) ==
    IF sels = <<>> THEN acc
    ELSE BySelectors(d, Tail(sels),
                     AppendNew(acc, find_all(d, Head(sels).tag, Head(sels).cls)))

\* encontrar_articulos as it would be if the selectors were skipped once the
\* <article> elements reach the threshold.
encontrar_articulos_short_circuit(d) ==
    LET articles == AppendNew(<<>>, find_all_article(d))
        all_articles == IF Len(articles) >= MinArticlesFound THEN articles
                        ELSE BySelectors(d, ARTICLE_SELECTORS, articles)
    IN IF Len(all_articles) >= MinArticlesFound THEN all_articles
       ELSE LET with_urls ==
                    AppendNew(all_articles, buscar_por_url_patterns(d, MinArticlesFound))
            IN IF Len(with_urls) >= MinArticlesFound THEN with_urls ELSE <<>>

\* article_finder.py 22-67
encontrar_articulos(d) ==
    LET articles == AppendNew(<<>>, find_all_article(d))
        all_articles == BySelectors(d, ARTICLE_SELECTORS, articles)
    IN IF Len(all_articles) >= MinArticlesFound THEN all_articles
       ELSE LET with_urls ==
                    AppendNew(all_articles, buscar_por_url_patterns(d, MinArticlesFound))
            IN IF Len(with_urls) >= MinArticlesFound THEN with_urls ELSE <<>>

\* The same page as the discovery of extraer_noticias_portada_async sees it.
\* (async_scraper.py 207: class_=class_name matches a class of that very name)
FrontPageOf(d) ==
    [sel |-> [k \in 1..Len(ARTICLE_SELECTORS) |->
                 SelectSeq(Elems(d), LAMBDA e : /\ e.tag = ARTICLE_SELECTORS[k].tag
                                               /\ e.cls = ARTICLE_SELECTORS[k].cls)],
     art |-> find_all_article(d),
     lnk |-> LinkParents(Elems(d))]

\* both locators of the repository are applied to the page
ApplyLocator ==
    /\ ufn = "encontrar_articulos"
    /\ uout = None
    /\ uout' = Some([finder |-> encontrar_articulos(uin),
                     inline |-> LocateArticles(FrontPageOf(uin))])
    /\ UNCHANGED <<ufn, uin, runVars, mainVars>>

(***************************************************************************)
(* ArticleFinder._validar_url.  A host is a sequence of tokens, "www." and *)
(* "WWW." being the prefix token in two spellings; a path is its segments  *)
(* and whether a slash ends it.                                            *)
(***************************************************************************)
LowerTok(c) ==
    CASE c = "WWW." -> "www."
      [] c = "A" -> "a"
      [] c = "Tag" -> "tag"
      [] OTHER -> c

\* str.lower() of a host or of the segments of a path
lower(h) == [k \in 1..Len(h) |-> LowerTok(h[k])]

\* _normalizar_dominio as it would be without the removal of "www.".
normalizar_dominio_keeping_www(domain) == lower(domain)

\* article_finder.py 138-140: domain.lower().removeprefix('www.')
normalizar_dominio(domain) ==
    LET d == lower(domain) IN
    IF d # <<>> /\ Head(d) = "www." THEN Tail(d) ELSE d

Seg(p, s) == [segs |-> p, slash |-> s]

\* the number of characters of a segment
SegLen(c) ==
    CASE c \in {"x"} -> 1
      [] c \in {"12", "20"} -> 2
      [] c \in {"tag", "Tag"} -> 3
      [] c \in {"2025", "nota"} -> 4
      [] c = "search" -> 6
      [] OTHER -> 10

\* len(path)
PathLen(p) ==
    SumSeq([k \in 1..Len(p.segs) |-> 1 + SegLen(p.segs[k])])
        + (IF p.slash THEN 1 ELSE 0)

\* article_finder.py 174-181: '/tag/' and the like need the segment and the
\* slash after it, '/search' and the like the beginning of a segment
ExcludedPath(p) ==
    LET segs == lower(p.segs) IN
    \E k \in 1..Len(segs) :
        \/ segs[k] = "tag" /\ (k < Len(segs) \/ p.slash)
        \/ segs[k] = "search"

\* article_finder.py 184: ^/\d{4}/\d{2}/\d{2}/?$
DateOnlyPath(p) ==
    /\ Len(p.segs) = 3
    /\ p.segs[1] = "2025"
    /\ p.segs[2] \in {"12", "20"}
    /\ p.segs[3] \in {"12", "20"}

\* _validar_url as it would be without the test of the length of the path.
validar_url_any_length(href, source_domain) ==
    LET url_completa == urljoin(source_domain, href)
        news_domain == url_completa.host
        path == url_completa.path
    IN IF url_completa.tmpl THEN None
       ELSE IF normalizar_dominio(source_domain) # normalizar_dominio(news_domain)
       THEN None
       ELSE IF ExcludedPath(path) THEN None
       ELSE IF DateOnlyPath(path) THEN None
       ELSE IF path.segs = <<>> THEN None
       ELSE Some([host |-> url_completa.host, path |-> url_completa.path])

\* article_finder.py 142-195
validar_url(href, source_domain) ==
    LET url_completa == urljoin(source_domain, href)
        news_domain == url_completa.host
        path == url_completa.path
    IN IF url_completa.tmpl THEN None
       ELSE IF normalizar_dominio(source_domain) # normalizar_dominio(news_domain)
       THEN None
       ELSE IF ExcludedPath(path) THEN None
       ELSE IF DateOnlyPath(path) THEN None
       ELSE IF path.segs = <<>> THEN None
       ELSE IF PathLen(path) < 5 THEN None
       ELSE Some([host |-> url_completa.host, path |-> url_completa.path])

\* async_scraper.py 236-245: what the inline resolver makes of one link
InlineResolve(href, source_domain) ==
    LET u == urljoin(source_domain, href) IN
    IF AcceptUrl(u, source_domain, <<>>)
    THEN Some([host |-> u.host, path |-> u.path]) ELSE None

Paths ==
    { Seg(<<"nota", "123-titulo">>, FALSE), Seg(<<"nota", "123-titulo">>, TRUE),
      Seg(<<>>, TRUE), Seg(<<>>, FALSE), Seg(<<"x">>, FALSE), Seg(<<"nota">>, FALSE),
      Seg(<<"2025", "12", "20">>, TRUE), Seg(<<"2025", "12", "20">>, FALSE),
      Seg(<<"2025", "12", "20", "nota">>, FALSE),
      Seg(<<"tag", "123-titulo">>, FALSE), Seg(<<"Tag", "123-titulo">>, FALSE),
      Seg(<<"123-titulo", "tag">>, FALSE), Seg(<<"123-titulo", "tag">>, TRUE),
      Seg(<<"search">>, FALSE) }

LinkHosts ==
    { None, <<"a">>, <<"www.", "a">>, <<"WWW.", "A">>, <<"www.", "www.", "a">>,
      <<"x">>, <<"www.", "x">> }

LinkInputs ==
    [source : {<<"a">>, <<"www.", "a">>, <<"A">>},
     href : [host : LinkHosts, path : Paths, tmpl : BOOLEAN]]

\* both resolvers of the repository are applied to the link
ApplyValidarUrl ==
    /\ ufn = "_validar_url"
    /\ uout = None
    /\ uout' = Some([finder |-> validar_url(uin.href, uin.source),
                     inline |-> InlineResolve(uin.href, uin.source)])
    /\ UNCHANGED <<ufn, uin, runVars, mainVars>>

(***************************************************************************)
(* ArticleFinder.extraer_urls.  A candidate is what the method reads of    *)
(* it: the hrefs of the links inside it and, for a candidate without a     *)
(* link inside, the href found around it (the parent <a>, or else the      *)
(* first link of the parent).                                              *)
(***************************************************************************)
MaxCandidates == 3

Candidate(links, around) == [links |-> links, around |-> around]

Href(h, p) == [host |-> h, path |-> p, tmpl |-> FALSE]

ArticlePath == Seg(<<"nota", "123-titulo">>, FALSE)

HrefPool ==
    { Href(None, ArticlePath), Href(None, Seg(<<"2025", "12", "20", "nota">>, FALSE)),
      Href(<<"www.", "a">>, ArticlePath), Href(<<"x">>, ArticlePath) }

Candidates ==
    {Candidate(l, None) : l \in UNION {[1..k -> HrefPool] : k \in 0..2}}
        \cup {Candidate(<<>>, Some(h)) : h \in HrefPool}
        \cup {Candidate(<<Href(None, ArticlePath)>>, Some(Href(<<"x">>, ArticlePath)))}

\* five teasers, four with a link to an article of the site, no two to the
\* same one, and one with a link to another site
FiveTeasers ==
    << Candidate(<<Href(None, ArticlePath)>>, None),
       Candidate(<<Href(None, Seg(<<"nota", "123-titulo">>, TRUE))>>, None),
       Candidate(<<Href(<<"x">>, ArticlePath)>>, None),
       Candidate(<<Href(None, Seg(<<"2025", "12", "20", "nota">>, FALSE))>>, None),
       Candidate(<<Href(<<"a">>, Seg(<<"123-titulo", "tag">>, FALSE))>>, None) >>

CandidateLists ==
    UNION {[1..k -> Candidates] : k \in 0..MaxCandidates} \cup {FiveTeasers}

\* article_finder.py 112-134: the hrefs read of one candidate
HrefsOf(article) ==
    IF article.links # <<>> THEN article.links
    ELSE IF article.around # None THEN <<article.around[1]>>
    ELSE <<>>

RECURSIVE HrefsRead(_)
HrefsRead(articles) ==
    IF articles = <<>> THEN <<>>
    ELSE HrefsOf(Head(articles)) \o HrefsRead(Tail(articles))

IsIn(x, seq) == \E k \in 1..Len(seq) : seq[k] = x

\* the loop as it would be without the test against urls_procesadas
RECURSIVE AppendAccepted(_, _, _)
AppendAccepted(hrefs, source_domain, urls_noticias) ==
    IF hrefs = <<>> THEN urls_noticias
    ELSE LET url == validar_url(Head(hrefs), source_domain)
         IN AppendAccepted(Tail(hrefs), source_domain,
                IF url # None
                THEN Append(urls_noticias, url[1]) ELSE urls_noticias)

\* article_finder.py 115-117, 124-126, 132-134: `if url and url not in
\* urls_procesadas`, for the hrefs in the order they are read
RECURSIVE AppendUnseen(_, _, _)
AppendUnseen(hrefs, source_domain, urls_noticias) ==
    IF hrefs = <<>> THEN urls_noticias
    ELSE LET url == validar_url(Head(hrefs), source_domain)
         IN AppendUnseen(Tail(hrefs), source_domain,
                IF url # None /\ ~IsIn(url[1], urls_noticias)
                THEN Append(urls_noticias, url[1]) ELSE urls_noticias)

\* article_finder.py 92-136
extraer_urls(articles, source_domain) ==
    AppendUnseen(HrefsRead(articles), source_domain, <<>>)

ApplyExtraerUrls ==
    /\ ufn = "extraer_urls"
    /\ uout = None
    /\ uout' = Some(extraer_urls(uin.articles, uin.source))
    /\ UNCHANGED <<ufn, uin, runVars, mainVars>>

(***************************************************************************)
(* The two extractions of the body applied to the containers of a page.    *)
(***************************************************************************)
MaxContainers == 2

\* what a container element can hold: nothing, one long paragraph, two
\* paragraphs, two paragraphs too short to be kept
ParagraphLists ==
    { <<>>, <<Par(200, 0)>>, <<Par(60, 0), Par(60, 0)>>, <<Par(10, 0), Par(10, 0)>> }

\* the kinds of container of the pages: article.article-body-width,
\* <article>, div.content
PageKinds == {2, ClasslessKind, 6}

\* the elements of one kind: the first one and the others of that class
SameKind == UNION {[1..k -> ParagraphLists] : k \in 1..2}

\* the containers of a page, in the order of BODY_CONTAINERS
PageContainers ==
    {conts \in UNION {[1..k -> [kind : PageKinds, same : SameKind]] : k \in 0..MaxContainers} :
        \A i, j \in 1..Len(conts) : i < j => conts[i].kind < conts[j].kind}

ApplyExtraerCuerpo ==
    /\ ufn = "extraer_cuerpo"
    /\ uout = None
    /\ uout' = Some([parser |-> extraer_cuerpo(uin), inline |-> BodyLegacy(uin)])
    /\ UNCHANGED <<ufn, uin, runVars, mainVars>>

(***************************************************************************)
(* DateParser (app/parsers/date_parser.py).  A date text is what is        *)
(* written: the fields of the date, those of the time if any, the fraction *)
(* of a second and the zone.  A timestamp is a naive datetime.             *)
(***************************************************************************)
Timestamp(y, mo, d, h, mi, s) == [y |-> y, mo |-> mo, d |-> d, h |-> h, mi |-> mi, s |-> s]

NoZone == [kind |-> "none", sign |-> 0, hh |-> 0, mm |-> 0]
ZuluZone == [kind |-> "Z", sign |-> 0, hh |-> 0, mm |-> 0]
\* "+HH:MM" or "-HH:MM" (kind "colon"), "+HHMM" or "-HHMM" (kind "compact")
Offset(kind, sign, hh, mm) == [kind |-> kind, sign |-> sign, hh |-> hh, mm |-> mm]

\* YYYY-MM-DDTHH:MM:SS with a fraction and a zone after it
DateTimeText(y, mo, d, h, mi, s, frac, zone) ==
    [form |-> "seconds", y |-> y, mo |-> mo, d |-> d, h |-> h, mi |-> mi, s |-> s,
     frac |-> frac, zone |-> zone]

\* YYYY-MM-DD
DateText(y, mo, d) ==
    [form |-> "date", y |-> y, mo |-> mo, d |-> d, h |-> 0, mi |-> 0, s |-> 0,
     frac |-> "", zone |-> NoZone]

\* a text that is no date
Garbage ==
    [form |-> "garbage", y |-> 0, mo |-> 0, d |-> 0, h |-> 0, mi |-> 0, s |-> 0,
     frac |-> "", zone |-> NoZone]

\* a value that is no string (a number, a list)
NoString ==
    [form |-> "number", y |-> 0, mo |-> 0, d |-> 0, h |-> 0, mi |-> 0, s |-> 0,
     frac |-> "", zone |-> NoZone]

DaysInMonth(mo) ==
    CASE mo = 2 -> 28
      [] mo \in {4, 6, 9, 11} -> 30
      [] OTHER -> 31

\* datetime(...) raises ValueError outside these ranges (the years of the
\* model are no leap years)
ValidDate(y, mo, d) == mo \in 1..12 /\ d \in 1..DaysInMonth(mo)
ValidTime(h, mi, s) == h \in 0..23 /\ mi \in 0..59 /\ s \in 0..59

\* the removal of the offset as it would be if the time were converted to
\* UTC with it
ConvertOffset(text) ==
    IF text.zone.kind = "colon"
    THEN [text EXCEPT !.zone = NoZone,
                      !.h = (text.h - text.zone.sign * text.zone.hh + 24) % 24]
    ELSE text

\* date_parser.py 132: re.sub(r'[+-]\d{2}:\d{2}$', '', fecha_str)
RemoveOffset(text) ==
    IF text.zone.kind = "colon" THEN [text EXCEPT !.zone = NoZone] ELSE text

\* date_parser.py 133: .replace('Z', '').replace('.000', '')
RemoveZulu(text) ==
    [text EXCEPT !.zone = IF text.zone.kind = "Z" THEN NoZone ELSE @,
                 !.frac = IF text.frac = ".000" THEN "" ELSE @]

\* date_parser.py 135-141: the first format of FORMATOS_ISO that
\* datetime.strptime accepts for the whole text
strptime(text) ==
    IF /\ text.form \in {"seconds", "date"}
       /\ text.frac = ""
       /\ text.zone = NoZone
       /\ ValidDate(text.y, text.mo, text.d)
       /\ ValidTime(text.h, text.mi, text.s)
    THEN Some(Timestamp(text.y, text.mo, text.d, text.h, text.mi, text.s))
    ELSE None

\* date_parser.py 114-141
parsear_fecha_iso(fecha_str) == strptime(RemoveZulu(RemoveOffset(fecha_str)))

\* date_parser.py 18-22, 105
MESES_ES(mes_texto) ==
    CASE mes_texto = "marzo" -> Some(3)
      [] mes_texto = "febrero" -> Some(2)
      [] OTHER -> None

\* date_parser.py 94-112: the day, the word of the month and the year that
\* the pattern finds in the text
parsear_fecha_texto(texto) ==
    IF texto = None THEN None
    ELSE LET mes == MESES_ES(texto[1].mes) IN
         IF /\ mes # None
            /\ texto[1].dia \in 1..31
            /\ texto[1].anio \in 2020..2030
            /\ ValidDate(texto[1].anio, mes[1], texto[1].dia)
         THEN Some(Timestamp(texto[1].anio, mes[1], texto[1].dia, 0, 0, 0))
         ELSE None

\* date_parser.py 196-210: the three groups of the first pattern found in
\* the URL
extraer_de_url(url) ==
    IF url = None THEN None
    ELSE IF /\ url[1].y \in 2020..2030
            /\ url[1].mo \in 1..12
            /\ url[1].d \in 1..31
            /\ ValidDate(url[1].y, url[1].mo, url[1].d)
         THEN Some(Timestamp(url[1].y, url[1].mo, url[1].d, 0, 0, 0))
         ELSE None

\* The linked-data block of a page: none, a text that is no JSON, JSON that
\* is a number, a string, null or a boolean ("scalar"), a list (of its
\* first element, if any), or an object, of which `date` is the first of
\* datePublished, dateCreated, dateModified that is truthy: None, a date
\* text, or a value that is no string.
LinkedData(kind, date) == [kind |-> kind, date |-> date]

\* date_parser.py 146-162: "raises" is the AttributeError of .get on what is
\* no dict, or of .strip on a date that is no string, which the except
\* clause does not name
extraer_de_json_ld(ld) ==
    CASE ld.kind \in {"none", "not_json", "empty_list"} -> [raises |-> FALSE, fecha |-> None]
      [] ld.kind \in {"scalar", "list_of_scalars"} -> [raises |-> TRUE, fecha |-> None]
      [] ld.kind \in {"object", "list_of_objects"} ->
            IF ld.date = None THEN [raises |-> FALSE, fecha |-> None]
            ELSE IF ld.date[1] = NoString THEN [raises |-> TRUE, fecha |-> None]
            ELSE [raises |-> FALSE, fecha |-> parsear_fecha_iso(ld.date[1])]

\* date_parser.py 164-173 (one meta tag), 175-181, 183-194 (one element)
extraer_de_meta_tags(page) == IF page.meta = None THEN None ELSE parsear_fecha_iso(page.meta[1])
extraer_de_time_tag(page) == IF page.time = None THEN None ELSE parsear_fecha_iso(page.time[1])
extraer_de_clases_css(page) == parsear_fecha_texto(page.css)

\* the first timestamp of the list
FirstOf(fechas) ==
    IF \E k \in 1..Len(fechas) : fechas[k] # None
    THEN fechas[CHOOSE k \in 1..Len(fechas) :
                    fechas[k] # None /\ \A j \in 1..(k - 1) : fechas[j] = None]
    ELSE None

\* date_parser.py 212-245
extraer(page) ==
    LET ld == extraer_de_json_ld(page.ld) IN
    IF ld.raises THEN [raises |-> TRUE, fecha |-> None]
    ELSE [raises |-> FALSE,
          fecha |-> FirstOf(<<ld.fecha, extraer_de_meta_tags(page), extraer_de_time_tag(page),
                              extraer_de_clases_css(page), extraer_de_url(page.url)>>)]

\* news_extractor.py 62-75, for a page whose content is valid: the record
\* with the date, or None when DateParser.extraer raises
RecordWithDate(page) ==
    LET r == extraer(page) IN
    IF r.raises THEN None ELSE Some([published_at |-> r.fecha])

Minus3 == Offset("colon", -1, 3, 0)

LinkedDataTexts ==
    { DateTimeText(2025, 3, 1, 10, 0, 0, "", Minus3),
      DateTimeText(2025, 3, 1, 23, 30, 0, "", Minus3),
      DateTimeText(2025, 3, 1, 1, 0, 0, "", Offset("colon", 1, 5, 30)),
      DateTimeText(2025, 3, 1, 10, 0, 0, ".000", Minus3),
      DateTimeText(2025, 3, 1, 10, 0, 0, ".123", Minus3),
      DateTimeText(2025, 3, 1, 10, 0, 0, "", Offset("compact", -1, 3, 0)),
      DateTimeText(2025, 3, 1, 10, 0, 0, "", ZuluZone),
      DateTimeText(2025, 3, 1, 10, 0, 0, "", NoZone),
      DateTimeText(2025, 13, 1, 10, 0, 0, "", Minus3),
      DateText(2025, 3, 1),
      Garbage }

LinkedDataBlocks ==
    {LinkedData(k, None) :
        k \in {"none", "not_json", "scalar", "list_of_scalars", "empty_list", "object"}}
        \cup {LinkedData("object", Some(d)) : d \in LinkedDataTexts \cup {NoString}}
        \cup {LinkedData("list_of_objects", Some(DateText(2025, 3, 1)))}

DatePages ==
    [ld : LinkedDataBlocks,
     meta : {None, Some(DateTimeText(2025, 3, 2, 10, 0, 0, "", Minus3)), Some(Garbage)},
     time : {None, Some(DateText(2025, 3, 3)), Some(Garbage)},
     css : {None, Some([dia |-> 4, mes |-> "marzo", anio |-> 2025]),
            Some([dia |-> 4, mes |-> "march", anio |-> 2025])},
     url : {None, Some([y |-> 2025, mo |-> 3, d |-> 5]), Some([y |-> 2025, mo |-> 2, d |-> 30]),
            Some([y |-> 1999, mo |-> 3, d |-> 5])}]

ApplyDateParser ==
    /\ ufn = "DateParser.extraer"
    /\ uout = None
    /\ uout' = Some([json_ld |-> extraer_de_json_ld(uin.ld),
                     extraer |-> extraer(uin),
                     record |-> RecordWithDate(uin)])
    /\ UNCHANGED <<ufn, uin, runVars, mainVars>>

(***************************************************************************)
(* The two fetches applied to one response, and what the scraper makes of  *)
(* the text: of a front page (async_scraper.py 195-230, which uses the     *)
(* inline fetch_html) and of an article page (the inline task and          *)
(* NewsExtractor.extraer).                                                 *)
(***************************************************************************)
FetchInputs == [kind : FetchKinds, front : FrontPages(1), page : ArticlePages]

ArticleUrl == [host |-> SourceHost(1), path |-> "/n1"]

ApplyFetchHtml ==
    /\ ufn = "fetch_html"
    /\ uout = None
    /\ uout' = Some([client |-> ClientFetchHtml(uin.kind),
                     inline |-> fetch_html(uin.kind),
                     located |-> IF NotHtml(fetch_html(uin.kind)) THEN <<>>
                                 ELSE LocateArticles(uin.front),
                     inline_record |-> IF NotHtml(fetch_html(uin.kind)) THEN None
                                       ELSE ExtractLegacy(ArticleUrl, SourceName(1), uin.page),
                     client_record |-> IF NotHtml(ClientFetchHtml(uin.kind)) THEN None
                                       ELSE ExtractModular(ArticleUrl, SourceName(1), uin.page)])
    /\ UNCHANGED <<ufn, uin, runVars, mainVars>>

\* no run of the scraper is under way
RunIdle ==
    /\ impl = "legacy" /\ nsrc = 0 /\ cap = 1 /\ sem = 1 /\ conn = 0
    /\ spc = [s \in SourceIds |-> "pending"]
    /\ doc = [s \in SourceIds |-> None]
    /\ arts = [s \in SourceIds |-> <<>>]
    /\ urls = [s \in SourceIds |-> <<>>]
    /\ frontFetches = [s \in SourceIds |-> 0]
    /\ artFetches = [s \in SourceIds |-> 0]
    /\ tpc = [s \in SourceIds |-> <<>>]
    /\ tres = [s \in SourceIds |-> <<>>]
    /\ tend = [s \in SourceIds |-> <<>>]
    /\ results = [s \in SourceIds |-> <<>>]
    /\ rpc = "idle"
    /\ todas = <<>>

UnitInit ==
    /\ RunIdle
    /\ MainIdle
    /\ uout = None
    /\ \/ ufn = "Noticia" /\ uin \in NoticiaInputs
       \/ ufn = "encontrar_articulos" /\ uin \in Docs
       \/ ufn = "_validar_url" /\ uin \in LinkInputs
       \/ ufn = "extraer_cuerpo" /\ uin \in PageContainers
       \/ ufn = "DateParser.extraer" /\ uin \in DatePages
       \/ ufn = "fetch_html" /\ uin \in FetchInputs
       \/ ufn = "extraer_urls" /\ uin \in [source : {<<"a">>}, articles : CandidateLists]

UnitNext ==
    \/ ApplyNoticia
    \/ ApplyLocator
    \/ ApplyValidarUrl
    \/ ApplyExtraerUrls
    \/ ApplyExtraerCuerpo
    \/ ApplyDateParser
    \/ ApplyFetchHtml

UnitSpec == UnitInit /\ [][UnitNext]_vars

IdsOf(seq) == {seq[k].id : k \in 1..Len(seq)}
NoElementTwice(seq) == \A i, j \in 1..Len(seq) : i # j => seq[i].id # seq[j].id

\* what the first two stages of the locator see of page d
ArticlesOf(d) == IdsOf(find_all_article(d))
SelectorMatchesOf(d) ==
    UNION {IdsOf(find_all(d, ARTICLE_SELECTORS[k].tag, ARTICLE_SELECTORS[k].cls)) :
              k \in 1..Len(ARTICLE_SELECTORS)}

(***************************************************************************)
(* C18: for every document, the article locator returns either the empty   *)
(* list or a list of at least min_articles_found elements of the document  *)
(* in which no element occurs twice.                                       *)
(***************************************************************************)
C18_EmptyOrEnoughDistinct ==
    Applied("encontrar_articulos") =>
        LET found == uout[1].finder IN
        /\ found = <<>> \/ Len(found) >= MinArticlesFound
        /\ NoElementTwice(found)
        /\ IdsOf(found) \subseteq 1..Len(uin)

\* the link fallback completed the result, one of whose elements is an
\* <article> that two selectors match and that holds two links
C18_Witness ==
    /\ Applied("encontrar_articulos")
    /\ uout[1].finder # <<>>
    /\ Cardinality(ArticlesOf(uin) \cup SelectorMatchesOf(uin)) < MinArticlesFound
    /\ \E k \in 1..Len(uout[1].finder) :
          /\ uout[1].finder[k].cls = "news-article"
          /\ uout[1].finder[k].links = 2

(***************************************************************************)
(* C19: the tag/class-selector stage of the article locator is applied for *)
(* every document, also when the <article> elements alone already reach    *)
(* the threshold: the result then is the union of the <article> elements   *)
(* and every element matching a configured (tag, partial class) pair, not  *)
(* the <article> elements alone.  Stated of both locators of the           *)
(* repository, ArticleFinder.encontrar_articulos and the discovery of      *)
(* extraer_noticias_portada_async.                                         *)
(***************************************************************************)
UnionWhenArticlesSuffice(d, found) ==
    Cardinality(ArticlesOf(d)) >= MinArticlesFound =>
        IdsOf(found) = ArticlesOf(d) \cup SelectorMatchesOf(d)

C19_SelectorsAlwaysUnioned ==
    Applied("encontrar_articulos") =>
        /\ UnionWhenArticlesSuffice(uin, uout[1].finder)
        /\ UnionWhenArticlesSuffice(uin, uout[1].inline)

\* C19 of ArticleFinder alone
C19_FinderUnions ==
    Applied("encontrar_articulos") => UnionWhenArticlesSuffice(uin, uout[1].finder)

\* three <article> elements and a <div> that only a selector matches
C19_Witness ==
    /\ Applied("encontrar_articulos")
    /\ Cardinality(ArticlesOf(uin)) = MinArticlesFound
    /\ SelectorMatchesOf(uin) \ ArticlesOf(uin) # {}
    /\ Len(uout[1].finder) = MinArticlesFound + 1
    /\ Len(uout[1].inline) = MinArticlesFound

\* the claim's rule: equal after lowercasing and removing one leading "www."
WithoutWww(h) == IF h # <<>> /\ h[1] \in {"www.", "WWW."} THEN Tail(h) ELSE h
SameHost(h1, h2) == lower(WithoutWww(h1)) = lower(WithoutWww(h2))

LinkHost(in) == IF in.href.host = None THEN in.source ELSE in.href.host

\* a link that nothing but its host can make the resolver reject
PlainArticleLink(in) ==
    /\ ~in.href.tmpl
    /\ in.href.path = Seg(<<"nota", "123-titulo">>, FALSE)

HostRule(in, resolved) ==
    /\ resolved # None => SameHost(in.source, LinkHost(in))
    /\ PlainArticleLink(in) /\ SameHost(in.source, LinkHost(in)) =>
          resolved = Some([host |-> LinkHost(in), path |-> in.href.path])

(***************************************************************************)
(* C20: the URL resolver accepts a link only if the host of its resolved   *)
(* absolute URL equals the host of the source's front page after both are  *)
(* lowercased and stripped of one leading "www."; a link to the same host  *)
(* with or without "www." is accepted on this rule and a link to any other *)
(* host is rejected.  Stated of both resolvers of the repository,          *)
(* ArticleFinder._validar_url and the resolution of                        *)
(* extraer_noticias_portada_async.                                         *)
(***************************************************************************)
C20_SameHostIgnoringWww ==
    Applied("_validar_url") =>
        /\ HostRule(uin, uout[1].finder)
        /\ HostRule(uin, uout[1].inline)

\* C20 of ArticleFinder alone
C20_FinderSameHost == Applied("_validar_url") => HostRule(uin, uout[1].finder)

\* a front page without "www." links to an article on the "www." host:
\* ArticleFinder resolves the link, the inline resolver drops it
C20_Witness ==
    /\ Applied("_validar_url")
    /\ uin.source = <<"a">>
    /\ uin.href.host = <<"www.", "a">>
    /\ PlainArticleLink(uin)
    /\ uout[1].finder # None
    /\ uout[1].inline = None


(***************************************************************************)
(* Values of the classification service's JSON and of the attributes made  *)
(* from them: a type and a number.  For a string the number tells its      *)
(* content apart (see below), for a list whether an element is an object.  *)
(***************************************************************************)
Val(t, v) == [t |-> t, v |-> v]
Absent == Val("absent", 0)
Null == Val("null", 0)
Bool(b) == Val("bool", IF b THEN 1 ELSE 0)
Num(n) == Val("number", n)
StrPlain == Val("string", 0)         \* a text without "Error"
StrError == Val("string", 1)         \* a text with "Error" in it
ListOfStr == Val("list", 0)
ListOfObj == Val("list", 1)

\* the attributes filter_noticias sets on a record: what insert_noticias_bulk
\* reads besides the fields of the dataclass
AIFields(decision, score, reasoning, keywords_found) ==
    [ai_decision |-> decision, ai_relevance_score |-> score,
     ai_reasoning |-> reasoning, ai_keywords_found |-> keywords_found]

\* A Noticia object: title and body are sequences of words; ai is None as
\* long as no classification pass has set the ai_* attributes.
Record(url, title, body, ai) == [url |-> url, title |-> title, body |-> body, ai |-> ai]

(***************************************************************************)
(* Storage (app/db/database.py).                                           *)
(***************************************************************************)
MaxBatch == 3

Urls == {"u1", "u2"}

\* sqlite3 binds None, numbers and strings, nothing else
Bindable(val) == val.t \in {"null", "number", "string", "bool"}

\* database.py 133-141: `if not keywords: return`, then the loop over them
KeywordsRaise(keywords) ==
    \/ keywords.t \in {"number", "bool"} /\ keywords.v # 0
    \/ keywords = ListOfObj

\* Count as it would be if a duplicate were counted as an error as well.
CountDuplicateAsErrorToo(st, counter) ==
    IF counter = "duplicadas"
    THEN [st EXCEPT !.duplicadas = @ + 1, !.errores = @ + 1]
    ELSE [st EXCEPT ![counter] = @ + 1]

\* database.py 266, 269, 272: stats[counter] += 1
Count(st, counter) == [st EXCEPT ![counter] = @ + 1]

\* database.py 231-273: what the body of the loop does with one record.
\*   before the INSERT runs: an attribute the record does not have, or a
\*     value that cannot be bound, raises (except Exception);
\*   the INSERT: a url already in the table (committed or not) raises
\*     IntegrityError, else the row is added to the open transaction;
\*   _insert_keywords may raise after that; if not, the transaction is
\*     committed.
InsertOne ==
    /\ dbpc = "inserting"
    /\ db_i < Len(batch)
    /\ LET noticia == batch[db_i + 1]
           present == noticia.url \in stored \cup uncommitted
           counter ==
               IF noticia.ai = None THEN "errores"
               ELSE IF ~Bindable(noticia.ai[1].ai_reasoning) THEN "errores"
               ELSE IF present THEN "duplicadas"
               ELSE IF KeywordsRaise(noticia.ai[1].ai_keywords_found) THEN "errores"
               ELSE "insertadas"
           row_added ==
               /\ noticia.ai # None
               /\ Bindable(noticia.ai[1].ai_reasoning)
               /\ ~present
       IN /\ stats' = Count(stats, counter)
          /\ outcomes' = Append(outcomes, [counter |-> counter, row_added |-> row_added])
          /\ IF counter = "insertadas"
             THEN /\ stored' = stored \cup uncommitted \cup {noticia.url}
                  /\ uncommitted' = {}
             ELSE /\ stored' = stored
                  /\ uncommitted' = IF row_added THEN uncommitted \cup {noticia.url}
                                    ELSE uncommitted
    /\ db_i' = db_i + 1
    /\ UNCHANGED <<dbpc, batch, ncall, first, scriptVars, aiVars, unitVars, runVars>>

\* database.py 275-277: conn.close() drops what was not committed
CloseBulk ==
    /\ dbpc = "inserting"
    /\ db_i = Len(batch)
    /\ dbpc' = "closed"
    /\ uncommitted' = {}
    /\ UNCHANGED <<batch, db_i, stats, stored, outcomes, ncall, first,
                   scriptVars, aiVars, unitVars, runVars>>

\* database.py 226-229: insert_noticias_bulk is called with the same batch
\* once more
InsertAgain ==
    /\ dbpc = "closed"
    /\ ncall = 1
    /\ first' = Some([stats |-> stats, stored |-> stored])
    /\ ncall' = 2
    /\ dbpc' = "inserting"
    /\ db_i' = 0
    /\ stats' = NoStats
    /\ outcomes' = <<>>
    /\ UNCHANGED <<batch, stored, uncommitted, scriptVars, aiVars, unitVars, runVars>>

Classified == Some(AIFields(Bool(TRUE), Num(9), StrPlain, ListOfStr))

\* the records a batch is made of: never classified, classified, and
\* classified from a response whose reasoning is a list or whose
\* keywords_found is a number
StorableRecords ==
    {Record(u, <<"bacheo">>, <<"otro">>, ai) :
        u \in Urls,
        ai \in {None, Classified,
                Some(AIFields(Bool(TRUE), Num(9), ListOfStr, ListOfStr)),
                Some(AIFields(Bool(TRUE), Num(9), StrPlain, Num(7)))}}

Batches == UNION {[1..k -> StorableRecords] : k \in 0..MaxBatch}

\* database.py 24-51, 226-229: a table holding some urls, and a batch
StoreInit ==
    /\ RunIdle
    /\ UnitIdle
    /\ ScriptIdle
    /\ AIIdle
    /\ dbpc = "inserting" /\ batch \in Batches /\ db_i = 0 /\ stats = NoStats
    /\ stored \in SUBSET Urls /\ uncommitted = {} /\ outcomes = <<>>
    /\ ncall = 1 /\ first = None

StoreNext ==
    \/ InsertOne
    \/ CloseBulk
    \/ InsertAgain

StoreSpec == StoreInit /\ [][StoreNext]_vars

Counters == {"insertadas", "duplicadas", "errores"}

\* how many records of the call so far were counted under the counter
Counted(counter) == Cardinality({k \in 1..Len(outcomes) : outcomes[k].counter = counter})

\* the record cannot reach the INSERT statement
FailsBeforeInsert(noticia) ==
    \/ noticia.ai = None
    \/ ~Bindable(noticia.ai[1].ai_reasoning)

\* C14 (as stated): when the same batch is inserted a second time into the
\* state the first insertion left, the second insertion reports every
\* record as duplicate, none as inserted, and the stored urls are the same
\* as after the first insertion.
C14_SecondInsertAllDuplicates ==
    (ncall = 2 /\ dbpc = "closed") =>
        /\ stats.duplicadas = Len(batch)
        /\ stats.insertadas = 0
        /\ stored = first[1].stored

\* What does hold of the second insertion: it inserts nothing and leaves
\* the stored urls as they were.
SecondInsertAddsNothing ==
    (ncall = 2 /\ dbpc = "closed") =>
        /\ stats.insertadas = 0
        /\ stored = first[1].stored

\* a second insertion of a batch with a record no pass has classified is over
C14_Witness ==
    /\ ncall = 2
    /\ dbpc = "closed"
    /\ \E k \in 1..Len(batch) : batch[k].ai = None
    /\ stats.errores > 0

\* C15: in a bulk insert every record attempted increments exactly one
\* counter: a record whose INSERT the UNIQUE constraint refuses only the
\* duplicate counter, a record that fails otherwise only the error counter;
\* the records after it are still attempted, and when the call is over the
\* three counters add up to the size of the batch.
C15_OneCounterPerRecord ==
    (dbpc # "idle") =>
        /\ Len(outcomes) = db_i
        /\ \A c \in Counters : stats[c] = Counted(c)
        /\ \A k \in 1..Len(outcomes) :
              /\ FailsBeforeInsert(batch[k]) => outcomes[k].counter = "errores"
              /\ outcomes[k].counter = "duplicadas" => ~outcomes[k].row_added
              /\ outcomes[k].counter = "insertadas" => batch[k].url \in stored
        /\ (dbpc = "closed") =>
              /\ db_i = Len(batch)
              /\ stats.insertadas + stats.duplicadas + stats.errores = Len(batch)

\* a call is over in which a record failed, a later one was a duplicate and
\* a still later one was inserted
C15_Witness ==
    /\ dbpc = "closed"
    /\ Len(outcomes) = 3
    /\ outcomes[1].counter = "errores"
    /\ outcomes[2].counter = "duplicadas"
    /\ outcomes[3].counter = "insertadas"


(***************************************************************************)
(* The classification pass (app/utils/ai_filter.py).  Scores are in        *)
(* tenths.                                                                 *)
(***************************************************************************)
RelevanceThreshold == 6

\* What the call of the service can give: an exception, a text that is not
\* JSON, JSON that is not an object, or an object with these four fields
\* (Absent: the object has no such field).
Response(kind, is_relevant, relevance_score, reasoning, keywords_found) ==
    [kind |-> kind, is_relevant |-> is_relevant, relevance_score |-> relevance_score,
     reasoning |-> reasoning, keywords_found |-> keywords_found]

NoObject(kind) == Response(kind, Absent, Absent, Absent, Absent)

Object(is_relevant, relevance_score, reasoning, keywords_found) ==
    Response("object", is_relevant, relevance_score, reasoning, keywords_found)

Responses ==
    { Object(Bool(TRUE), Num(9), StrPlain, ListOfStr),     \* relevant
      Object(Bool(FALSE), Num(2), StrPlain, ListOfStr),    \* not relevant
      Object(Bool(TRUE), Num(4), StrPlain, ListOfStr),     \* under the threshold
      NoObject("service_error"),
      NoObject("not_json"),
      NoObject("not_object"),                              \* [1], 5, "text", null
      Object(Absent, Absent, Absent, Absent),              \* {}
      Object(Bool(TRUE), Num(9), Absent, ListOfStr),       \* no reasoning
      Object(Absent, Num(9), StrPlain, ListOfStr),         \* no is_relevant
      Object(Bool(TRUE), StrPlain, StrPlain, ListOfStr),   \* score of type string
      Object(Bool(TRUE), Null, StrPlain, ListOfStr),       \* score null
      Object(StrPlain, Num(9), StrPlain, ListOfStr),       \* is_relevant: "no"
      Object(Bool(TRUE), Num(9), Num(5), ListOfStr),       \* reasoning a number
      Object(Bool(TRUE), Num(9), ListOfStr, ListOfStr),    \* reasoning a list
      Object(Bool(TRUE), Num(9), StrPlain, Num(7)),        \* keywords_found a number
      Object(Bool(TRUE), Num(9), StrError, ListOfStr) }    \* "Error" in the reasoning

AIFilterResult(is_relevant, relevance_score, reasoning, keywords_found) ==
    [is_relevant |-> is_relevant, relevance_score |-> relevance_score,
     reasoning |-> reasoning, keywords_found |-> keywords_found]

\* ai_filter.py 136-147 and 165-177: both fallbacks are not relevant, score
\* 0.0, and a reasoning that starts with "Error"
Fallback == AIFilterResult(Bool(FALSE), 0, StrError, ListOfStr)

\* Python's truth value
Truthy(val) ==
    CASE val.t \in {"absent", "null"} -> FALSE
      [] val.t \in {"bool", "number"} -> val.v # 0
      [] OTHER -> TRUE

\* ai_filter.py 109-121: what the body of the try raises for the response:
\* json.loads raises JSONDecodeError (a ValueError), .get on what is not a
\* dict AttributeError, float() ValueError for a string that is no number
\* and TypeError for None or a list
ParseRaises(response) ==
    CASE response.kind = "not_json" -> "ValueError"
      [] response.kind = "not_object" -> "AttributeError"
      [] response.relevance_score.t = "string" -> "ValueError"
      [] response.relevance_score.t \in {"null", "list"} -> "TypeError"
      [] OTHER -> "none"

\* data.get(name, default)
Get(val, default) == IF val = Absent THEN default ELSE val

\* float(): True is 1.0
Float(val) == IF val.t = "bool" THEN 10 * val.v ELSE val.v

\* ai_filter.py 99-147, for a response where nothing else than ValueError is
\* raised
parse_response(response) ==
    IF ParseRaises(response) = "ValueError"
    THEN Fallback
    ELSE AIFilterResult(Get(response.is_relevant, Bool(FALSE)),
                        Float(Get(response.relevance_score, Num(0))),
                        Get(response.reasoning, Null),
                        Get(response.keywords_found, ListOfStr))

\* ai_filter.py 154-177: the call of the service and _parse_response are in
\* one try whose `except Exception` gives the fallback
analyze_relevance(response) ==
    IF response.kind = "service_error"
           \/ ParseRaises(response) \in {"AttributeError", "TypeError"}
    THEN Fallback
    ELSE parse_response(response)

\* ai_filter.py 230: result.is_relevant and result.relevance_score >= threshold
Decision(result) ==
    Truthy(result.is_relevant) /\ result.relevance_score >= RelevanceThreshold

\* Annotate as it would be if the pass also rewrote the title.
AnnotateAndRetitle(noticia, result) ==
    [noticia EXCEPT !.title = <<>>,
                    !.ai = Some(AIFields(Bool(Decision(result)), Num(result.relevance_score),
                                         result.reasoning, result.keywords_found))]

\* ai_filter.py 230-242: the ai_* attributes are set on the record
Annotate(noticia, result) ==
    [noticia EXCEPT !.ai = Some(AIFields(Bool(Decision(result)), Num(result.relevance_score),
                                         result.reasoning, result.keywords_found))]

\* ai_filter.py 246: `"Error" in result.reasoning` raises TypeError for None,
\* a number or a boolean; it is a substring test for a string and a
\* membership test for a list
InRaises(reasoning) == reasoning.t \in {"null", "number", "bool"}

ErrorIn(reasoning) == reasoning = StrError

\* ai_filter.py 223-255: one turn of the loop of filter_noticias; the
\* answer of the service is any of Responses.  When line 246 raises, the
\* exception leaves filter_noticias, filtrar_con_ia and the script.
ClassifyOne ==
    /\ mpc = "classifying"
    /\ ai_i < Len(noticias)
    /\ \E response \in Responses :
          LET n == noticias[ai_i + 1]
              result == analyze_relevance(response)
          IN /\ answers' = Append(answers, [n |-> n, response |-> response])
             /\ heap' = [heap EXCEPT ![n] = Annotate(@, result)]
             /\ IF InRaises(result.reasoning)
                THEN /\ mpc' = "raised"
                     /\ ai_stats' = [ai_stats EXCEPT !.total_analyzed = @ + 1]
                     /\ UNCHANGED relevant_noticias
                ELSE /\ mpc' = mpc
                     /\ IF ErrorIn(result.reasoning)
                        THEN /\ ai_stats' = [ai_stats EXCEPT !.total_analyzed = @ + 1,
                                                             !.errors = @ + 1]
                             /\ UNCHANGED relevant_noticias
                        ELSE IF Decision(result)
                        THEN /\ ai_stats' = [ai_stats EXCEPT !.total_analyzed = @ + 1,
                                                             !.relevant = @ + 1]
                             /\ relevant_noticias' = Append(relevant_noticias, n)
                        ELSE /\ ai_stats' = [ai_stats EXCEPT !.total_analyzed = @ + 1,
                                                             !.not_relevant = @ + 1]
                             /\ UNCHANGED relevant_noticias
    /\ ai_i' = ai_i + 1
    /\ UNCHANGED <<configured, aiOn, born, noticias, fetches, dbVars, unitVars, runVars>>

\* ai_filter.py 257, main.py 24, 35, 94: the relevant records are the list
\* the script goes on with
ClassifyDone ==
    /\ mpc = "classifying"
    /\ ai_i = Len(noticias)
    /\ noticias' = relevant_noticias
    /\ mpc' = "storing"
    /\ UNCHANGED <<configured, aiOn, heap, born, fetches, aiVars, dbVars, unitVars, runVars>>


(***************************************************************************)
(* The script (main.py) and the keyword filter (config/sources.py).        *)
(***************************************************************************)
MaxConfigured == 2
MaxRecords == 2

\* config/sources.py 88-118: two of the keywords
KEYWORDS == {"bacheo", "trinidad"}

\* str.lower() on the words the records are made of
LowerWord(w) == IF w = "Bacheo" THEN "bacheo" ELSE w

\* the filter as it would be if it looked at the title only
noticia_contiene_keywords_in_title(noticia) ==
    \E k \in 1..Len(noticia.title) : LowerWord(noticia.title[k]) \in KEYWORDS

\* config/sources.py 133-143: title, subtitle and body in lower case hold a
\* keyword (the records here have no subtitle)
noticia_contiene_keywords(noticia) ==
    LET texto_completo == noticia.title \o noticia.body
    IN \E k \in 1..Len(texto_completo) : LowerWord(texto_completo[k]) \in KEYWORDS

\* config/sources.py 120-122: the configured sources that are enabled
get_enabled_sources(sources) == {s \in 1..Len(sources) : sources[s]}

\* The lists AsyncNewsScraper.scrape can return: valid records (title and
\* body not empty), no url twice, none classified.
ScrapedRecords ==
    {Record(u, title, body, None) :
        u \in Urls, title \in {<<"Bacheo">>, <<"otro">>}, body \in {<<"trinidad">>, <<"otro">>}}

ScrapedLists ==
    {l \in UNION {[1..k -> ScrapedRecords] : k \in 0..MaxRecords} :
        \A i, j \in 1..Len(l) : l[i].url = l[j].url => i = j}

\* main.py 66-70: without an enabled source the script exits
Check ==
    /\ mpc = "start"
    /\ mpc' = IF get_enabled_sources(configured) = {} THEN "exit" ELSE "sources_ok"
    /\ UNCHANGED <<configured, aiOn, heap, born, noticias, fetches, aiVars, dbVars,
                   unitVars, runVars>>

\* main.py 75-76: scraper.scrape(sources) fetches the front page of every
\* enabled source and returns the list of the valid records
Scrape ==
    /\ mpc = "sources_ok"
    /\ \E l \in ScrapedLists :
          /\ heap' = l
          /\ born' = l
          /\ noticias' = [k \in 1..Len(l) |-> k]
    /\ fetches' = Cardinality(get_enabled_sources(configured))
    /\ mpc' = "scraped"
    /\ UNCHANGED <<configured, aiOn, aiVars, dbVars, unitVars, runVars>>

\* main.py 80-94: the keyword filter, and whether the classification pass
\* is run
KeywordFilter ==
    /\ mpc = "scraped"
    /\ noticias' = SelectSeq(noticias, LAMBDA n : noticia_contiene_keywords(heap[n]))
    /\ mpc' = IF aiOn /\ noticias' # <<>> THEN "classifying" ELSE "storing"
    /\ UNCHANGED <<configured, aiOn, heap, born, fetches, aiVars, dbVars, unitVars, runVars>>

\* main.py 98-100, 109-110: insert_noticias_bulk is called if the list is
\* not empty
StartInsert ==
    /\ mpc = "storing"
    /\ IF noticias # <<>>
       THEN /\ mpc' = "inserting"
            /\ dbpc' = "inserting"
            /\ batch' = [k \in 1..Len(noticias) |-> heap[noticias[k]]]
            /\ ncall' = 1
       ELSE /\ mpc' = "end"
            /\ UNCHANGED <<dbpc, batch, ncall>>
    /\ UNCHANGED <<configured, aiOn, heap, born, noticias, fetches, aiVars,
                   db_i, stats, stored, uncommitted, outcomes, first, unitVars, runVars>>

\* main.py 100-107: insert_noticias_bulk has returned
Finish ==
    /\ mpc = "inserting"
    /\ dbpc = "closed"
    /\ mpc' = "end"
    /\ UNCHANGED <<configured, aiOn, heap, born, noticias, fetches, aiVars, dbVars,
                   unitVars, runVars>>

\* main.py 47-66: the table holds what earlier runs stored, the filter is
\* made if AI_CONFIG['enabled'], SOURCES is what is configured
MainInit ==
    /\ RunIdle
    /\ UnitIdle
    /\ mpc = "start"
    /\ configured \in UNION {[1..k -> BOOLEAN] : k \in 0..MaxConfigured}
    /\ aiOn \in BOOLEAN
    /\ heap = <<>> /\ born = <<>> /\ noticias = <<>> /\ fetches = 0
    /\ AIIdle
    /\ dbpc = "idle" /\ batch = <<>> /\ db_i = 0 /\ stats = NoStats
    /\ stored \in SUBSET Urls /\ uncommitted = {} /\ outcomes = <<>>
    /\ ncall = 0 /\ first = None

MainNext ==
    \/ Check
    \/ Scrape
    \/ KeywordFilter
    \/ ClassifyOne
    \/ ClassifyDone
    \/ StartInsert
    \/ InsertOne
    \/ CloseBulk
    \/ Finish

MainSpec == MainInit /\ [][MainNext]_vars


\* the response is not what the prompt asks for: no JSON object, a field
\* missing, or a field of the wrong type
Malformed(response) ==
    \/ response.kind # "object"
    \/ response.is_relevant.t # "bool"
    \/ response.relevance_score.t # "number"
    \/ response.reasoning.t # "string"
    \/ response.keywords_found.t # "list"

\* the record was taken as not relevant, with score zero
NotRelevantZero(n) ==
    /\ heap[n].ai # None
    /\ heap[n].ai[1].ai_decision = Bool(FALSE)
    /\ heap[n].ai[1].ai_relevance_score = Num(0)
    /\ \A k \in 1..Len(relevant_noticias) : relevant_noticias[k] # n

\* C16 (as stated): whatever the classification service answers, the pass
\* does not raise, and the record of a malformed or failed answer is taken
\* as not relevant with score zero while the pass goes on.
C16_NoResponseIsFatal ==
    /\ mpc # "raised"
    /\ \A k \in 1..Len(answers) :
          Malformed(answers[k].response) => NotRelevantZero(answers[k].n)

\* What holds: an answer that is a service error, no JSON, no JSON object,
\* or has a score that is not a number is taken as not relevant, score
\* zero, and the pass goes on.
UnparsedIsNotRelevantZero ==
    \A k \in 1..Len(answers) :
        LET response == answers[k].response
        IN (response.kind # "object" \/ response.relevance_score.t \in {"string", "null", "list"})
               => /\ NotRelevantZero(answers[k].n)
                  /\ (k = Len(answers) => mpc # "raised")

\* the pass has raised on an object without a reasoning
C16_Witness ==
    /\ mpc = "raised"
    /\ answers # <<>>
    /\ answers[Len(answers)].response.kind = "object"
    /\ answers[Len(answers)].response.reasoning = Absent

\* C17 (as stated): without an enabled source the run stops at the check
\* of the sources, having fetched, classified and inserted nothing; with an
\* enabled source nothing stops the run before its end.
C17_OnlyNoSourcesIsFatal ==
    /\ (get_enabled_sources(configured) = {}) =>
          /\ mpc \in {"start", "exit"}
          /\ fetches = 0
          /\ ai_stats = NoAIStats
          /\ dbpc = "idle" /\ stats = NoStats /\ uncommitted = {}
    /\ (get_enabled_sources(configured) # {}) => mpc \notin {"exit", "raised"}

\* What holds: the first half.
NoSourcesStopsAtTheCheck ==
    /\ (get_enabled_sources(configured) = {}) =>
          /\ mpc \in {"start", "exit"}
          /\ fetches = 0
          /\ ai_stats = NoAIStats
          /\ dbpc = "idle" /\ stats = NoStats /\ uncommitted = {}
    /\ (mpc = "exit") => get_enabled_sources(configured) = {}

\* a run with an enabled source has been stopped after the fetches, within
\* the classification pass
C17_Witness ==
    /\ get_enabled_sources(configured) # {}
    /\ fetches > 0
    /\ mpc = "raised"
    /\ stats = NoStats


\* the classification pass has analysed the record
Analysed(n) == \E k \in 1..Len(answers) : answers[k].n = n

\* C12 (as stated): after its construction no field of a record is changed
\* by the keyword filter, the classification pass or storage.
C12_NoFieldEverChanged == heap = born

\* C12 (amended): url, title and body of a record are never changed after
\* its construction; the only change is that of the ai_* fields, made by the
\* classification pass, when it is enabled, on the records it analyses.
C12_OnlyClassificationSetsAIFields ==
    /\ Len(heap) = Len(born)
    /\ \A n \in 1..Len(heap) :
          /\ heap[n].url = born[n].url
          /\ heap[n].title = born[n].title
          /\ heap[n].body = born[n].body
          /\ (heap[n] # born[n]) => (aiOn /\ Analysed(n))
    /\ \A k \in 1..Len(batch) :
          \E n \in 1..Len(heap) : batch[k] = heap[n]

\* a run is over in which a record was classified and then inserted
C12_Witness ==
    /\ mpc = "end"
    /\ stats.insertadas > 0
    /\ \E n \in 1..Len(heap) : heap[n].ai # None /\ heap[n].url \in stored

\* the record mentions a keyword in its title or its body, whatever the case
MentionsKeyword(noticia) ==
    \E w \in {"Bacheo", "bacheo", "trinidad"} :
        \/ \E k \in 1..Len(noticia.title) : noticia.title[k] = w
        \/ \E k \in 1..Len(noticia.body) : noticia.body[k] = w

\* the pass kept the record: its result is a decision of relevance and its
\* reasoning is not an "Error" text
Kept(n) ==
    \E k \in 1..Len(answers) :
        /\ answers[k].n = n
        /\ LET result == analyze_relevance(answers[k].response)
           IN Decision(result) /\ ~ErrorIn(result.reasoning)

\* the records expected in the call of storage, in the order of the scrape
Expected ==
    SelectSeq([n \in 1..Len(heap) |-> n],
              LAMBDA n : MentionsKeyword(heap[n]) /\ (aiOn => Kept(n)))

NoArticleUrl(u) ==
    \/ u.tmpl
    \/ u.path.segs = <<>>
    \/ PathLen(u.path) < 5
    \/ DateOnlyPath(u.path)
    \/ ExcludedPath(u.path)

\* C21: ArticleFinder._validar_url rejects a link to the site's own domain
\* whenever the resolved URL holds the template marker or its path is the
\* root, shorter than 5 characters, a bare date or holds an entry of the
\* exclusion list; a link to the site's own domain with none of these is
\* returned as its absolute URL.
C21_SameDomainRejections ==
    (Applied("_validar_url") /\ SameHost(uin.source, LinkHost(uin))) =>
        LET u == urljoin(uin.source, uin.href)
        IN IF NoArticleUrl(u)
           THEN uout[1].finder = None
           ELSE uout[1].finder = Some([host |-> LinkHost(uin), path |-> uin.href.path])

\* the resolver has rejected the path "/x" of the site's own domain, which
\* nothing but its length makes no article
C21_Witness ==
    /\ Applied("_validar_url")
    /\ SameHost(uin.source, LinkHost(uin))
    /\ ~uin.href.tmpl
    /\ uin.href.path = Seg(<<"x">>, FALSE)
    /\ uout[1].finder = None


\* the URLs ArticleFinder accepts among the hrefs read of the candidates
AcceptedUrls(in) ==
    LET hrefs == HrefsRead(in.articles)
    IN {validar_url(hrefs[k], in.source)[1] :
            k \in {j \in 1..Len(hrefs) : validar_url(hrefs[j], in.source) # None}}

\* where the URL is accepted first among the hrefs read
FirstSeen(in, url) ==
    LET hrefs == HrefsRead(in.articles)
    IN CHOOSE k \in 1..Len(hrefs) :
          /\ validar_url(hrefs[k], in.source) = Some(url)
          /\ \A j \in 1..(k - 1) : validar_url(hrefs[j], in.source) # Some(url)

\* C22: extraer_urls returns every accepted absolute URL exactly once, in
\* the order in which the URLs are first met over the candidates, so that
\* the result has as many URLs as there are distinct accepted URLs among
\* the candidates' links (4 for the five teasers).
C22_EachUrlOnceInFirstSeenOrder ==
    Applied("extraer_urls") =>
        LET urls_noticias == uout[1] IN
        /\ \A i, j \in 1..Len(urls_noticias) : urls_noticias[i] = urls_noticias[j] => i = j
        /\ {urls_noticias[k] : k \in 1..Len(urls_noticias)} = AcceptedUrls(uin)
        /\ Len(urls_noticias) = Cardinality(AcceptedUrls(uin))
        /\ \A i, j \in 1..Len(urls_noticias) :
              i < j => FirstSeen(uin, urls_noticias[i]) < FirstSeen(uin, urls_noticias[j])
        /\ (uin.articles = FiveTeasers) => Len(urls_noticias) = 4

\* the five teasers are resolved
C22_Witness ==
    /\ Applied("extraer_urls")
    /\ uin.articles = FiveTeasers
    /\ Len(uout[1]) = 4


(***************************************************************************)
(* The claims about the extraction of the body.                            *)
(***************************************************************************)
\* the first element of the kind has fewer paragraphs than min_paragraphs
FailsGate(c) == Len(c.same[1]) < MinParagraphs

\* the elements of the kind's class together supply a body
UnionSupplies(c) ==
    /\ c.kind # ClasslessKind
    /\ Len(c.same) > 1
    /\ Len(Flatten(c.same)) >= MinParagraphs
    /\ JoinedLength(Flatten(c.same)) > 0

\* the rule of the claim, of an extraction body(_) and the containers of a
\* page: a first container that fails the gate supplies nothing by itself;
\* the body is then that of the union of the containers of its class, or
\* else that of the containers that follow; without containers it is empty
GateRule(body(_), conts) ==
    /\ conts = <<>> => body(conts) = 0
    /\ (conts # <<>> /\ FailsGate(conts[1])) =>
          body(conts) = IF UnionSupplies(conts[1])
                        THEN JoinedLength(Flatten(conts[1].same))
                        ELSE body(Tail(conts))
    /\ (\A k \in 1..Len(conts) : FailsGate(conts[k]) /\ ~UnionSupplies(conts[k])) =>
          body(conts) = 0

\* C23 (as stated, of both extractions of the repository,
\* ContentParser.extraer_cuerpo and the inline one of
\* extraer_datos_noticia_async): a container with fewer than min_paragraphs
\* paragraphs never supplies the body by itself; the extraction goes on to
\* the union of the containers of the same class, then to the next kind of
\* container, and the body is empty if no container passes the gate.
C23_GateUnionNext ==
    Applied("extraer_cuerpo") =>
        /\ uout[1].parser = extraer_cuerpo(uin) /\ GateRule(extraer_cuerpo, uin)
        /\ uout[1].inline = BodyLegacy(uin) /\ GateRule(BodyLegacy, uin)

\* C23 of ContentParser.extraer_cuerpo alone
C23_ParserGateUnionNext ==
    Applied("extraer_cuerpo") =>
        (uout[1].parser = extraer_cuerpo(uin) /\ GateRule(extraer_cuerpo, uin))

\* C23 of the inline extraction without the union: what holds of it
InlineGateNext ==
    Applied("extraer_cuerpo") =>
        /\ uin = <<>> => uout[1].inline = 0
        /\ (uin # <<>> /\ FailsGate(uin[1])) => uout[1].inline = BodyLegacy(Tail(uin))
        /\ (\A k \in 1..Len(uin) : FailsGate(uin[k])) => uout[1].inline = 0

\* an article split over two containers of one class, one paragraph each:
\* ContentParser joins them, the inline extraction finds no body
C23_Witness ==
    /\ Applied("extraer_cuerpo")
    /\ Len(uin) = 1
    /\ uin[1].kind = 2
    /\ uin[1].same = << <<Par(200, 0)>>, <<Par(200, 0)>> >>
    /\ uout[1].parser > 0
    /\ uout[1].inline = 0

\* a single container with one paragraph of 200 characters: no body
OneLongParagraphIsNoBody ==
    (Applied("extraer_cuerpo") /\ Len(uin) = 1 /\ uin[1].same = << <<Par(200, 0)>> >>) =>
        (uout[1].parser = 0 /\ uout[1].inline = 0)


(***************************************************************************)
(* The claims about DateParser.                                            *)
(***************************************************************************)
\* what each of the five strategies yields for the page, in the order
\* linked data, meta tags, time element, date classes, URL; a strategy that
\* raises yields nothing
Yields(page) ==
    << extraer_de_json_ld(page.ld).fecha, extraer_de_meta_tags(page),
       extraer_de_time_tag(page), extraer_de_clases_css(page), extraer_de_url(page.url) >>

\* the result is the timestamp of the first strategy that yields one, and
\* absent only when none does
FirstYieldReturned(page, result) ==
    /\ ~result.raises
    /\ \A k \in 1..5 :
          (Yields(page)[k] # None /\ \A j \in 1..(k - 1) : Yields(page)[j] = None)
              => result.fecha = Yields(page)[k]
    /\ (result.fecha = None) <=> (\A k \in 1..5 : Yields(page)[k] = None)

\* C24 (as stated): DateParser.extraer returns the timestamp of the first
\* strategy that yields one, in the order linked data, meta tags, time
\* element, date classes, URL; no later strategy overrides an earlier one,
\* and the result is absent only when all five yield nothing.
C24_FirstStrategyWins ==
    Applied("DateParser.extraer") => FirstYieldReturned(uin, uout[1].extraer)

\* What holds: C24 for the pages on which the linked-data strategy does not
\* raise.
FirstStrategyWinsUnlessRaised ==
    (Applied("DateParser.extraer") /\ ~uout[1].json_ld.raises) =>
        FirstYieldReturned(uin, uout[1].extraer)

\* a page whose linked data is a JSON number and whose meta tag has a date:
\* extraer raises instead of returning the date of the meta tag
C24_Witness ==
    /\ Applied("DateParser.extraer")
    /\ uin.ld.kind = "scalar"
    /\ extraer_de_meta_tags(uin) # None
    /\ uout[1].extraer.raises

\* the date is written YYYY-MM-DDTHH:MM:SS with an offset +HH:MM or -HH:MM
\* after it, and its fields are those of a date and of a time
WithOffset(text) ==
    /\ text.form = "seconds"
    /\ text.frac = ""
    /\ text.zone.kind = "colon"
    /\ ValidDate(text.y, text.mo, text.d)
    /\ ValidTime(text.h, text.mi, text.s)

\* C25: a date written YYYY-MM-DDTHH:MM:SS followed by +HH:MM or -HH:MM is
\* parsed, from the linked data, to the naive timestamp with exactly the
\* fields written: the offset is cut off, not applied.
C25_OffsetCutOff ==
    (/\ Applied("DateParser.extraer")
     /\ uin.ld.kind = "object"
     /\ uin.ld.date # None
     /\ WithOffset(uin.ld.date[1])) =>
        LET text == uin.ld.date[1] IN
        /\ ~uout[1].json_ld.raises
        /\ uout[1].json_ld.fecha =
              Some(Timestamp(text.y, text.mo, text.d, text.h, text.mi, text.s))

\* "2025-03-01T23:30:00-03:00" has been parsed to 2025-03-01 23:30:00
C25_Witness ==
    /\ Applied("DateParser.extraer")
    /\ uin.ld = LinkedData("object", Some(DateTimeText(2025, 3, 1, 23, 30, 0, "", Minus3)))
    /\ uout[1].json_ld.fecha = Some(Timestamp(2025, 3, 1, 23, 30, 0))

\* C28 (as stated): for every page whose content is valid, whatever its
\* linked data, the extraction task produces a record, whose published_at
\* is absent when no strategy yields a date.
C28_DateNeverLosesRecord ==
    Applied("DateParser.extraer") =>
        /\ uout[1].record # None
        /\ (\A k \in 1..5 : Yields(uin)[k] = None) => uout[1].record[1].published_at = None

\* What holds: a record is lost only when the linked data is JSON but no
\* object, or its date no string.
RecordUnlessLinkedDataRaises ==
    Applied("DateParser.extraer") =>
        (uout[1].record = None <=>
            \/ uin.ld.kind \in {"scalar", "list_of_scalars"}
            \/ uin.ld.date = Some(NoString))

\* a page with valid content whose linked data is a list of numbers: no
\* record
C28_Witness ==
    /\ Applied("DateParser.extraer")
    /\ uin.ld.kind = "list_of_scalars"
    /\ uout[1].record = None


\* C26 (as stated, of both fetches of the repository,
\* AsyncHTTPClient.fetch_html and fetch_html of async_scraper.py): a fetch
\* whose response has a status of 400 or more returns a failure and never
\* the text of the page, so that no candidate is located on an error page
\* and no record is built from one.
C26_ErrorStatusIsFailure ==
    (Applied("fetch_html") /\ uin.kind = "http_error") =>
        /\ uout[1].client = "None"
        /\ uout[1].inline = "None"
        /\ uout[1].located = <<>>
        /\ uout[1].inline_record = None
        /\ uout[1].client_record = None

\* C26 of AsyncHTTPClient.fetch_html and NewsExtractor alone
ClientErrorStatusIsFailure ==
    (Applied("fetch_html") /\ uin.kind = "http_error") =>
        (uout[1].client = "None" /\ uout[1].client_record = None)

\* the inline fetch has returned the text of an error page, on which
\* candidates were located and from which a record was built
C26_Witness ==
    /\ Applied("fetch_html")
    /\ uin.kind = "http_error"
    /\ uout[1].inline = "text"
    /\ uout[1].located # <<>>
    /\ uout[1].inline_record # None
    /\ uout[1].client = "None"


\* the containers of the links that match a URL pattern, as elements of the
\* page
LinkContainersOf(d) == {i \in 1..Len(d) : d[i].links > 0}

\* the distinct candidates of the three stages taken together
CandidatesOf(d) == ArticlesOf(d) \cup SelectorMatchesOf(d) \cup LinkContainersOf(d)

\* C29 (as stated): whenever the distinct candidates of the three stages
\* together are at least min_articles_found, encontrar_articulos returns a
\* result that is not empty; so it does for a page with exactly
\* min_articles_found containers of matching links and no other candidate.
C29_EnoughCandidatesNeverEmpty ==
    Applied("encontrar_articulos") =>
        (Cardinality(CandidatesOf(uin)) >= MinArticlesFound => uout[1].finder # <<>>)

\* What holds: the result is not empty when the first two stages reach the
\* threshold, or when the link stage finds more than the threshold of
\* containers that differ in content.
EnoughWithoutLinksOrMoreThanEnoughLinks ==
    Applied("encontrar_articulos") =>
        ((\/ Cardinality(ArticlesOf(uin) \cup SelectorMatchesOf(uin)) >= MinArticlesFound
          \/ Len(DedupByContent(LinkParents(Elems(uin)), <<>>)) > MinArticlesFound)
            => uout[1].finder # <<>>)

\* a page of exactly three <div> teasers with one, two and three matching
\* links, and nothing else: the locator returns nothing
C29_Witness ==
    /\ Applied("encontrar_articulos")
    /\ Len(uin) = MinArticlesFound
    /\ \A i \in 1..Len(uin) : uin[i].tag = "div" /\ uin[i].cls = "" /\ uin[i].links = i
    /\ uout[1].finder = <<>>


\* the urls whose row the call under way added to the table and that are in
\* the table now: the INSERT of the record went through (the url was in no
\* row before it) and the row was committed
RowsAdded ==
    {batch[k].url : k \in {j \in 1..Len(outcomes) :
                              outcomes[j].row_added /\ batch[j].url \in stored}}

\* the record at position k of the batch left a row in the table
Persisted(k) == outcomes[k].row_added /\ batch[k].url \in stored

\* C27 (as stated): after a bulk insert the number reported as inserted is
\* the number of rows the call added to the table, and no record counted as
\* a duplicate or as an error is persisted, whatever precedes or follows it
\* in the batch.
C27_InsertedCountIsRowsAdded ==
    (dbpc = "closed") =>
        /\ stats.insertadas = Cardinality(RowsAdded)
        /\ \A k \in 1..Len(outcomes) :
               outcomes[k].counter \in {"duplicadas", "errores"} => ~Persisted(k)

\* What holds: a record counted as inserted is persisted, a record counted
\* as a duplicate never is, and a record counted as an error is persisted
\* only when its row was pending and a later record of the batch committed.
CountedInsertedIsPersisted ==
    (dbpc = "closed") =>
        /\ stats.insertadas <= Cardinality(RowsAdded)
        /\ \A k \in 1..Len(outcomes) :
               /\ outcomes[k].counter = "insertadas" => Persisted(k)
               /\ outcomes[k].counter = "duplicadas" => ~Persisted(k)
               /\ (outcomes[k].counter = "errores" /\ Persisted(k)) =>
                      \E j \in (k + 1)..Len(outcomes) : outcomes[j].counter = "insertadas"

\* a first insertion is over: the first record was counted as an error after
\* its row was inserted, the record after it was inserted and committed, and
\* the row of the first is in the table
C27_Witness ==
    /\ ncall = 1
    /\ dbpc = "closed"
    /\ Len(outcomes) >= 2
    /\ outcomes[1].counter = "errores"
    /\ outcomes[1].row_added
    /\ outcomes[2].counter = "insertadas"
    /\ batch[1].url \in stored
    /\ stats.insertadas < Cardinality(RowsAdded)


\* C30 (as stated): with classification disabled, every record that passed
\* the keyword filter and whose url is not yet stored is counted as inserted
\* by the bulk insert and is persisted. The table only grows, so a url that
\* is not in it when the call is over was not in it before: every record
\* handed over has its url in the table at the end, and the record whose
\* url was missing is counted as inserted.
C30_UnclassifiedRecordsStored ==
    (~aiOn /\ mpc = "end" /\ dbpc = "closed") =>
        \A k \in 1..Len(batch) :
            /\ batch[k].url \in stored
            /\ \E j \in 1..k : batch[j].url = batch[k].url
                                  /\ (outcomes[j].counter = "insertadas"
                                        \/ outcomes[j].counter = "duplicadas")

\* What holds: with classification enabled, a record the pass classified
\* with a textual reasoning and a list of keywords, and whose url is not yet
\* stored, is counted as inserted and persisted.
ClassifiedRecordsStored ==
    (aiOn /\ mpc = "end" /\ dbpc = "closed") =>
        \A k \in 1..Len(batch) :
            (/\ batch[k].ai # None
             /\ Bindable(batch[k].ai[1].ai_reasoning)
             /\ ~KeywordsRaise(batch[k].ai[1].ai_keywords_found))
                => /\ batch[k].url \in stored
                   /\ outcomes[k].counter \in {"insertadas", "duplicadas"}

\* the script ran without classification: a record passed the keyword
\* filter, its url is not in the table, and the bulk insert counted every
\* record as an error
C30_Witness ==
    /\ ~aiOn
    /\ mpc = "end"
    /\ dbpc = "closed"
    /\ Len(batch) > 0
    /\ \E k \in 1..Len(batch) : batch[k].url \notin stored /\ batch[k].ai = None
    /\ stats.errores = Len(batch)
    /\ stats.insertadas = 0

====
